---- MODULE Spec2Model ----
(***************************************************************************)
(* The ingestion core of reg-dashboard: the upsert engine of src/db.ts     *)
(* (regulation_events, regulation_event_status_changes, sources), the      *)
(* crawl-run ledger (crawl_runs) and runIngestionPipeline of src/ingest.ts. *)
(*                                                                         *)
(* Text is modelled by TLA+ strings.  String functions that TLC cannot     *)
(* compute (lower-casing, trimming, tag stripping) are tabulated over the  *)
(* strings the inputs below are built from; concatenation is real.         *)
(***************************************************************************)
EXTENDS Integers, Sequences, FiniteSets, TLC

VARIABLES
    events,          \* table regulation_events: a set of rows
    statusChanges,   \* table regulation_event_status_changes, in insertion order
    sources,         \* table sources: a set of rows
    clock,           \* the wall clock behind new Date().toISOString()
    lastCall,        \* the last direct upsertRegulationEvent call: argument, result, store before
    crawlRuns,       \* table crawl_runs, indexed by its AUTOINCREMENT id
    runs,            \* the runIngestionPipeline invocations: locals and position of each
    upstream,        \* what the sources publish and the classifier answers, per source
    probe            \* a single call of a function of the crawler or the classifier

vars == <<events, statusChanges, sources, clock, lastCall, crawlRuns, runs, upstream, probe>>

\* ---------------------------------------------------------------- bounds

\* upsertRegulationEvent calls made in one behaviour of Spec
MaxCalls == 3

\* runIngestionPipeline invocations made in one behaviour of SpecPipeline
MaxRuns == 2

\* ---------------------------------------------------------------- values

\* SQL NULL / JavaScript null in a text column or field
Null == "<null>"

\* no function call is being observed
NoProbe == [op |-> "none"]

allowedStages ==
    {"proposed", "introduced", "committee_review", "passed", "enacted",
     "effective", "amended", "withdrawn", "rejected"}

allowedBrackets == {"13-15", "16-18", "both"}

\* String.prototype.toLowerCase, tabulated (ASCII, where SQLite's lower() agrees)
toLowerCase(s) ==
    CASE s = "USA" -> "usa"
      [] s = "California" -> "california"
      [] s = "Unknown" -> "unknown"
      [] s = "Bill A" -> "bill a"
      [] s = "Bill B" -> "bill b"
      [] s = "https://example.gov/Docs/2" -> "https://example.gov/docs/2"
      [] s = "Rule 2" -> "rule 2"
      [] s = "RULE 2" -> "rule 2"
      [] s = "Untitled feed item" -> "untitled feed item"
      [] OTHER -> s

\* SQLite lower(): folds ASCII letters only; every tabulated string is ASCII
sqlLower(s) == toLowerCase(s)

\* String.prototype.trim, tabulated
trim(s) ==
    CASE s = " USA " -> "USA"
      [] s = " USA" -> "USA"
      [] s = " usa" -> "usa"
      [] s = " California" -> "California"
      [] s = " Springfield" -> "Springfield"
      [] s = "  " -> ""
      [] s = " Rule 1" -> "Rule 1"
      [] s = " https://example.gov/docs/1 " -> "https://example.gov/docs/1"
      [] OTHER -> s

normalizeJurisdictionState(value) ==
    IF value = Null THEN "" ELSE trim(value)

\* a score a caller passes is a JavaScript number.  An integer stands for itself;
\* the numbers that are no integers are encoded above every integer the inputs
\* use: Fraction + tenths for a positive fraction given in tenths, then NaN and
\* Infinity
Fraction == 1000
NaN == 2000
Infinity == 2001

\* Number.isInteger
NumberIsInteger(value) == value < Fraction

\* a plausible slip: the upper clamp left out
normalizeScore_noUpperClamp(value) ==
    IF ~NumberIsInteger(value) THEN 1 ELSE IF value < 1 THEN 1 ELSE value

normalizeScore(value) ==
    IF ~NumberIsInteger(value) THEN 1
    ELSE IF value < 1 THEN 1 ELSE IF value > 5 THEN 5 ELSE value

\* a plausible slip: the key joined from the strings as given, not lower-cased
dedupeKey_caseSensitive(country, state, title) ==
    country \o "|" \o state \o "|" \o title

dedupeKey(country, state, title) ==
    toLowerCase(country) \o "|" \o toLowerCase(state) \o "|" \o toLowerCase(title)

\* SHA-1 hex digest: an injective tagging of the digested string
deterministicEventId(dedupe) == "sha1(" \o dedupe \o ")"

RECURSIVE JoinJson(_)
JoinJson(values) ==
    IF values = <<>> THEN ""
    ELSE IF Len(values) = 1 THEN "\"" \o values[1] \o "\""
    ELSE "\"" \o values[1] \o "\"," \o JoinJson(Tail(values))

\* JSON.stringify of an array of strings
stringifyJsonArray(values) == "[" \o JoinJson(values) \o "]"

\* a plausible slip: the stored stage never recognised, so always the default
extractStage_alwaysDefault(row) == "proposed"

extractStage(row) ==
    IF row \in allowedStages THEN row ELSE "proposed"

\* ------------------------------------------------------------ sources

\* INSERT ... ON CONFLICT(url) DO UPDATE on table sources (name and url UNIQUE)
upsertSource(srcs, source) ==
    LET byUrl == {r \in srcs : r.url = source.url}
        nameTaken == \E r \in srcs : r.name = source.name /\ r.url # source.url
        timestamp == source.lastCrawledAt
    IN  IF nameTaken
        THEN [threw |-> TRUE, sources |-> srcs, id |-> 0]
        ELSE IF byUrl = {}
        THEN LET id == Cardinality(srcs) + 1
             IN  [threw |-> FALSE,
                  sources |-> srcs \cup {[id |-> id, name |-> source.name, url |-> source.url,
                                          last_crawled_at |-> timestamp,
                                          created_at |-> timestamp]},
                  id |-> id]
        ELSE LET old == CHOOSE r \in byUrl : TRUE
             IN  [threw |-> FALSE,
                  sources |-> (srcs \ {old}) \cup
                              {[old EXCEPT !.name = source.name,
                                           !.last_crawled_at = timestamp]},
                  id |-> old.id]

\* ------------------------------------------------------- upsert engine

\* const country = event.jurisdictionCountry.trim() || "Unknown"
eventCountry(event) ==
    IF trim(event.jurisdictionCountry) = "" THEN "Unknown" ELSE trim(event.jurisdictionCountry)

\* the `normalized` object literal: scores clamped, empty texts defaulted
normalizeEvent(event) ==
    [event EXCEPT
        !.impactScore = normalizeScore(@),
        !.likelihoodScore = normalizeScore(@),
        !.confidenceScore = normalizeScore(@),
        !.chiliScore = normalizeScore(@),
        !.summary = IF @ \in {"", Null} THEN "Regulation item: " \o event.title ELSE @,
        !.businessImpact = IF @ \in {"", Null} THEN "Unknown" ELSE @,
        !.rawSourceText = IF @ \in {"", Null} THEN "" ELSE @]

\* a plausible slip: the lookup narrowed by source_url, as the unique index is
selectExisting_bySourceUrl(evts, country, state, event) ==
    {r \in evts : /\ r.jurisdiction_country = country
                  /\ r.jurisdiction_state = state
                  /\ r.source_url = event.sourceUrl
                  /\ sqlLower(r.title) = sqlLower(event.title)}

\* SELECT ... WHERE jurisdiction_country = ? AND jurisdiction_state = ?
\*   AND lower(title) = lower(?) ORDER BY updated_at DESC LIMIT 1
selectExisting(evts, country, state, event) ==
    LET matching == {r \in evts : /\ r.jurisdiction_country = country
                                  /\ r.jurisdiction_state = state
                                  /\ sqlLower(r.title) = sqlLower(event.title)}
    IN  {r \in matching : \A q \in matching : q.updated_at <= r.updated_at}

\* a plausible slip: the INSERT leaving the stage column to its schema default
newEventRow_stageDefault(eventId, country, state, normalized, sourceId, now) ==
    [id |-> eventId,
     title |-> normalized.title,
     jurisdiction_country |-> country,
     jurisdiction_state |-> state,
     age_bracket |-> normalized.ageBracket,
     stage |-> "proposed",
     is_under16_applicable |-> IF normalized.isUnder16Applicable THEN 1 ELSE 0,
     impact_score |-> normalized.impactScore,
     likelihood_score |-> normalized.likelihoodScore,
     confidence_score |-> normalized.confidenceScore,
     chili_score |-> normalized.chiliScore,
     summary |-> normalized.summary,
     business_impact |-> normalized.businessImpact,
     required_solutions |-> stringifyJsonArray(normalized.requiredSolutions),
     affected_products |-> stringifyJsonArray(normalized.affectedMetaProducts),
     competitor_responses |-> stringifyJsonArray(normalized.competitorResponses),
     raw_source_text |-> normalized.rawSourceText,
     provenance_links |-> stringifyJsonArray(normalized.provenanceLinks),
     effective_date |-> normalized.effectiveDate,
     published_date |-> normalized.publishedDate,
     source_id |-> sourceId,
     source_url |-> normalized.sourceUrl,
     created_at |-> now,
     updated_at |-> now,
     last_crawled_at |-> now]

\* the row of the INSERT INTO regulation_events
newEventRow(eventId, country, state, normalized, sourceId, now) ==
    [id |-> eventId,
     title |-> normalized.title,
     jurisdiction_country |-> country,
     jurisdiction_state |-> state,
     age_bracket |-> normalized.ageBracket,
     stage |-> normalized.stage,
     is_under16_applicable |-> IF normalized.isUnder16Applicable THEN 1 ELSE 0,
     impact_score |-> normalized.impactScore,
     likelihood_score |-> normalized.likelihoodScore,
     confidence_score |-> normalized.confidenceScore,
     chili_score |-> normalized.chiliScore,
     summary |-> normalized.summary,
     business_impact |-> normalized.businessImpact,
     required_solutions |-> stringifyJsonArray(normalized.requiredSolutions),
     affected_products |-> stringifyJsonArray(normalized.affectedMetaProducts),
     competitor_responses |-> stringifyJsonArray(normalized.competitorResponses),
     raw_source_text |-> normalized.rawSourceText,
     provenance_links |-> stringifyJsonArray(normalized.provenanceLinks),
     effective_date |-> normalized.effectiveDate,
     published_date |-> normalized.publishedDate,
     source_id |-> sourceId,
     source_url |-> normalized.sourceUrl,
     created_at |-> now,
     updated_at |-> now,
     last_crawled_at |-> now]

\* a plausible slip: a table declared without its PRIMARY KEY and unique index
insertViolatesConstraint_checksOnly(evts, row) ==
    \/ row.age_bracket \notin allowedBrackets
    \/ row.stage \notin allowedStages
    \/ row.impact_score \notin 1..5
    \/ row.likelihood_score \notin 1..5
    \/ row.confidence_score \notin 1..5
    \/ row.chili_score \notin 1..5

\* the table's constraints an INSERT can violate: PRIMARY KEY (id), the unique
\* index idx_regulation_events_dedupe, and the CHECKs on the enumerated columns
insertViolatesConstraint(evts, row) ==
    \/ \E r \in evts : r.id = row.id
    \/ \E r \in evts : /\ r.jurisdiction_country = row.jurisdiction_country
                       /\ r.jurisdiction_state = row.jurisdiction_state
                       /\ r.source_url = row.source_url
                       /\ r.title = row.title
    \/ row.age_bracket \notin allowedBrackets
    \/ row.stage \notin allowedStages
    \/ row.impact_score \notin 1..5
    \/ row.likelihood_score \notin 1..5
    \/ row.confidence_score \notin 1..5
    \/ row.chili_score \notin 1..5

\* a plausible slip: the stored JSON text compared with the array's bare join
hasChanges_unstringified(existing, normalized) ==
    \/ existing.stage # normalized.stage
    \/ existing.provenance_links # JoinJson(normalized.provenanceLinks)

\* const hasChanges = wasStatusChange || ... (is_under16_applicable is not compared)
hasChanges(existing, normalized) ==
    \/ existing.stage # normalized.stage
    \/ existing.age_bracket # normalized.ageBracket
    \/ existing.impact_score # normalized.impactScore
    \/ existing.likelihood_score # normalized.likelihoodScore
    \/ existing.confidence_score # normalized.confidenceScore
    \/ existing.chili_score # normalized.chiliScore
    \/ (IF existing.summary = Null THEN "" ELSE existing.summary) # normalized.summary
    \/ existing.business_impact # normalized.businessImpact
    \/ existing.required_solutions # stringifyJsonArray(normalized.requiredSolutions)
    \/ existing.affected_products # stringifyJsonArray(normalized.affectedMetaProducts)
    \/ existing.competitor_responses # stringifyJsonArray(normalized.competitorResponses)
    \/ existing.raw_source_text # normalized.rawSourceText
    \/ existing.provenance_links # stringifyJsonArray(normalized.provenanceLinks)

\* a plausible slip: the UPDATE without its `stage = @stage` assignment
updatedEventRow_stageKept(row, normalized, now) ==
    [row EXCEPT
        !.age_bracket = normalized.ageBracket,
        !.impact_score = normalized.impactScore,
        !.likelihood_score = normalized.likelihoodScore,
        !.confidence_score = normalized.confidenceScore,
        !.chili_score = normalized.chiliScore,
        !.summary = normalized.summary,
        !.updated_at = now,
        !.last_crawled_at = now]

\* the row after UPDATE regulation_events SET ... WHERE id = @id
updatedEventRow(row, normalized, now) ==
    [row EXCEPT
        !.stage = normalized.stage,
        !.age_bracket = normalized.ageBracket,
        !.is_under16_applicable = IF normalized.isUnder16Applicable THEN 1 ELSE 0,
        !.impact_score = normalized.impactScore,
        !.likelihood_score = normalized.likelihoodScore,
        !.confidence_score = normalized.confidenceScore,
        !.chili_score = normalized.chiliScore,
        !.summary = normalized.summary,
        !.business_impact = normalized.businessImpact,
        !.required_solutions = stringifyJsonArray(normalized.requiredSolutions),
        !.affected_products = stringifyJsonArray(normalized.affectedMetaProducts),
        !.competitor_responses = stringifyJsonArray(normalized.competitorResponses),
        !.raw_source_text = normalized.rawSourceText,
        !.provenance_links = stringifyJsonArray(normalized.provenanceLinks),
        !.effective_date = normalized.effectiveDate,
        !.published_date = normalized.publishedDate,
        !.updated_at = now,
        !.last_crawled_at = now]

\* a call that ended in an exception (a SqliteError) instead of a result
Threw == [id |-> "", status |-> "threw", wasStatusChange |-> FALSE, previousStage |-> Null]

\* upsertRegulationEvent(db, event) at time `now`: the tables after the call
\* and the value it returns
upsertRegulationEvent(db, event, now) ==
    LET state == normalizeJurisdictionState(event.jurisdictionState)
        country == eventCountry(event)
        src == upsertSource(db.sources, [name |-> event.sourceName, url |-> event.sourceUrl,
                                         lastCrawledAt |-> now])
        found == selectExisting(db.events, country, state, event)
        eventId == deterministicEventId(dedupeKey(country, state, event.title))
        normalized == normalizeEvent(event)
    IN  IF src.threw
        THEN [events |-> db.events, statusChanges |-> db.statusChanges,
              sources |-> db.sources, result |-> Threw]
        ELSE IF found = {}
        THEN LET row == newEventRow(eventId, country, state, normalized, src.id, now)
             IN  IF insertViolatesConstraint(db.events, row)
                 THEN [events |-> db.events, statusChanges |-> db.statusChanges,
                       sources |-> src.sources, result |-> Threw]
                 ELSE [events |-> db.events \cup {row}, statusChanges |-> db.statusChanges,
                       sources |-> src.sources,
                       result |-> [id |-> eventId, status |-> "created",
                                   wasStatusChange |-> FALSE, previousStage |-> Null]]
        ELSE LET existing == CHOOSE r \in found : TRUE
                 wasStatusChange == existing.stage # normalized.stage
                 previousStage == extractStage(existing.stage)
             IN  IF ~hasChanges(existing, normalized)
                 THEN [events |-> (db.events \ {existing}) \cup
                                  {[existing EXCEPT !.last_crawled_at = now, !.updated_at = now]},
                       statusChanges |-> db.statusChanges,
                       sources |-> src.sources,
                       result |-> [id |-> existing.id, status |-> "unchanged",
                                   wasStatusChange |-> wasStatusChange,
                                   previousStage |-> previousStage]]
                 ELSE [events |-> (db.events \ {existing}) \cup
                                  {updatedEventRow(existing, normalized, now)},
                       statusChanges |->
                           IF wasStatusChange
                           THEN Append(db.statusChanges,
                                       [event_id |-> existing.id,
                                        previous_stage |-> previousStage,
                                        new_stage |-> normalized.stage,
                                        changed_at |-> now])
                           ELSE db.statusChanges,
                       sources |-> src.sources,
                       result |-> [id |-> existing.id,
                                   status |-> IF wasStatusChange THEN "status_changed"
                                              ELSE "updated",
                                   wasStatusChange |-> wasStatusChange,
                                   previousStage |-> previousStage]]

\* ------------------------------------------------- ingestion pipeline

knownCountries ==
    {"united states", "usa", "united kingdom", "uk", "australia", "canada", "india",
     "japan", "south korea", "singapore", "brazil", "mexico", "european union", "eu",
     "european union and european economic area"}

normalizeJurisdictionText(value) == toLowerCase(trim(value))

isLikelyCountry(value) == normalizeJurisdictionText(value) \in knownCountries

\* Array.prototype.join
RECURSIVE JoinWith(_, _)
JoinWith(parts, sep) ==
    IF parts = <<>> THEN ""
    ELSE IF Len(parts) = 1 THEN parts[1]
    ELSE parts[1] \o sep \o JoinWith(Tail(parts), sep)

NonEmpty(part) == part # ""

\* `value || null` on a string
orNull(value) == IF value = "" THEN Null ELSE value

\* A jurisdiction text is given as the sequence of its comma-separated segments
\* (what text.split(",") returns); the text itself is their join by ",".
splitJurisdiction(rawJurisdiction) ==
    LET text == trim(JoinWith(rawJurisdiction, ","))
        trimmed == [i \in 1..Len(rawJurisdiction) |-> trim(rawJurisdiction[i])]
        parts == SelectSeq(trimmed, NonEmpty)
    IN  IF text = ""
        THEN [country |-> "Unknown", state |-> Null]
        ELSE IF Len(parts) > 1
        THEN LET first == parts[1]
                 last == parts[Len(parts)]
             IN  IF isLikelyCountry(last)
                 THEN [country |-> last,
                       state |-> orNull(JoinWith(SubSeq(parts, 1, Len(parts) - 1), ", "))]
                 ELSE IF isLikelyCountry(first)
                 THEN [country |-> first, state |-> orNull(JoinWith(Tail(parts), ", "))]
                 ELSE [country |-> first, state |-> JoinWith(Tail(parts), ", ")]
        ELSE [country |-> text, state |-> Null]

mapUnder16Applicability(ageBracket) == ageBracket \in {"13-15", "16-18", "both"}

normalizeRequiredSolutions(item) ==
    IF Len(item.requiredSolutions) > 0 THEN item.requiredSolutions
    ELSE <<"Legal review", "Monitoring">>

normalizeCompetitorResponses(item) ==
    IF Len(item.competitorResponses) > 0 THEN item.competitorResponses ELSE <<>>

normalizeAffectedProducts(item) ==
    IF Len(item.affectedMetaProducts) > 0 THEN item.affectedMetaProducts
    ELSE <<"Meta Platforms", "Meta Ads Products">>

\* sanitizeText: tags stripped, whitespace collapsed, trimmed; tabulated
sanitizeText(value) ==
    CASE value = "<em>Bill B</em>" -> "Bill B"
      [] value = Null -> ""
      [] OTHER -> value

\* /no specific regulatory details|source indicates|no details available/i, tabulated
matchesBoilerplate(summary) ==
    summary \in {"No specific regulatory details were published by the source for this item yet."}

\* /(regulation|law|bill|act|...|kosa)/i, tabulated: the texts that hold a keyword
containsRegulatoryKeyword(text) ==
    text \in {"Bill A", "bill a", "Bill B",
              "California bill would require age verification for teen accounts on social apps.",
              "Senate passed the bill requiring age verification for teen accounts on social apps.",
              "No specific regulatory details were published by the source for this item yet.",
              "full text of the bill", "wire report on the bill"}

\* a plausible slip: the gate without its minimum length
isLowQualityAnalysis_anyLength(item, analysis) ==
    LET summary == sanitizeText(analysis.summary)
        title == sanitizeText(item.title)
        raw == toLowerCase(sanitizeText(item.rawText))
    IN  \/ summary = ""
        \/ matchesBoilerplate(summary)
        \/ ~(\/ containsRegulatoryKeyword(title)
             \/ containsRegulatoryKeyword(summary)
             \/ containsRegulatoryKeyword(raw))

\* the quality gate; summaries shorter than 60 characters are rejected
isLowQualityAnalysis(item, analysis) ==
    LET summary == sanitizeText(analysis.summary)
        title == sanitizeText(item.title)
        raw == toLowerCase(sanitizeText(item.rawText))
    IN  \/ summary = ""
        \/ Len(summary) < 60
        \/ matchesBoilerplate(summary)
        \/ ~(\/ containsRegulatoryKeyword(title)
             \/ containsRegulatoryKeyword(summary)
             \/ containsRegulatoryKeyword(raw))

\* the date part of a parseable timestamp, else null; tabulated
estimatePublishedDate(item) ==
    CASE item.publishedAt = Null -> Null
      [] item.publishedAt = "2026-01-30T10:00:00Z" -> "2026-01-30"
      [] OTHER -> Null

\* whitespace runs collapsed, trimmed, lower-cased
normalizeForHash(value) == toLowerCase(trim(value))

hashText(value) == "sha1(" \o normalizeForHash(value) \o ")"

\* analysis.jurisdiction || item.source.jurisdiction
jurisdictionOf(item, analysis) ==
    IF JoinWith(analysis.jurisdiction, ",") = "" THEN item.source.jurisdiction
    ELSE analysis.jurisdiction

buildRegulationKey(item, analysis) ==
    LET jurisdiction == splitJurisdiction(jurisdictionOf(item, analysis))
        country == normalizeForHash(IF jurisdiction.country = "" THEN "unknown"
                                    ELSE jurisdiction.country)
        state == normalizeForHash(IF jurisdiction.state = Null THEN "" ELSE jurisdiction.state)
        title == normalizeForHash(IF item.title = "" THEN "untitled" ELSE item.title)
    IN  country \o "|" \o state \o "|" \o title

\* a plausible slip: the classified stage taken into the key
buildDeduplicationKey_withStage(item, analysis) ==
    LET normalizedUrl == toLowerCase(trim(item.url))
        textHash == hashText(IF item.rawText = "" THEN item.title \o " " \o item.summary
                             ELSE item.rawText)
        contentKey == IF normalizedUrl = "" THEN "text:" \o textHash ELSE normalizedUrl
    IN  buildRegulationKey(item, analysis) \o "|" \o analysis.stage \o "::" \o contentKey

buildDeduplicationKey(item, analysis) ==
    LET regulationKey == buildRegulationKey(item, analysis)
        normalizedUrl == toLowerCase(trim(item.url))
        textHash == hashText(IF item.rawText = "" THEN item.title \o " " \o item.summary
                             ELSE item.rawText)
        contentKey == IF normalizedUrl = "" THEN "text:" \o textHash ELSE normalizedUrl
    IN  regulationKey \o "::" \o contentKey

\* the RegulationEventInput upsertAnalysedItem builds for upsertRegulationEvent
analysedEvent(item, analysis) ==
    LET jurisdiction == splitJurisdiction(jurisdictionOf(item, analysis))
    IN  [title |-> sanitizeText(item.title),
         jurisdictionCountry |-> jurisdiction.country,
         jurisdictionState |-> jurisdiction.state,
         stage |-> analysis.stage,
         ageBracket |-> analysis.ageBracket,
         isUnder16Applicable |-> mapUnder16Applicability(analysis.ageBracket),
         impactScore |-> analysis.impactScore,
         likelihoodScore |-> analysis.likelihoodScore,
         confidenceScore |-> analysis.confidenceScore,
         chiliScore |-> analysis.chiliScore,
         summary |-> sanitizeText(analysis.summary),
         businessImpact |-> sanitizeText(analysis.businessImpact),
         requiredSolutions |-> normalizeRequiredSolutions(analysis),
         affectedMetaProducts |-> normalizeAffectedProducts(analysis),
         competitorResponses |-> normalizeCompetitorResponses(analysis),
         rawSourceText |-> item.rawText,
         provenanceLinks |-> item.provenanceLinks,
         effectiveDate |-> Null,
         publishedDate |-> estimatePublishedDate(item),
         sourceName |-> item.source.name,
         sourceUrl |-> item.source.url]

\* upsertAnalysedItem: "ignored" without touching the store, else the upsert's
\* status ("threw" when upsertRegulationEvent throws)
upsertAnalysedItem(db, item, analysis, now) ==
    IF ~analysis.isRelevant \/ isLowQualityAnalysis(item, analysis)
    THEN [events |-> db.events, statusChanges |-> db.statusChanges,
          sources |-> db.sources, status |-> "ignored"]
    ELSE LET out == upsertRegulationEvent(db, analysedEvent(item, analysis), now)
         IN  [events |-> out.events, statusChanges |-> out.statusChanges,
              sources |-> out.sources, status |-> out.result.status]

\* INSERT INTO crawl_runs ... VALUES (now, 'running', 0, ...); the row's id is its
\* index.  `writes` counts the UPDATEs the row has received.
createCrawlRun(table, now) ==
    Append(table, [id |-> Len(table) + 1, started_at |-> now, finished_at |-> Null,
                   status |-> "running", sources_attempted |-> 0, sources_success |-> 0,
                   sources_failed |-> 0, items_discovered |-> 0, events_created |-> 0,
                   events_updated |-> 0, events_status_changed |-> 0,
                   events_ignored |-> 0, writes |-> 0])

\* a plausible slip: the UPDATE without its WHERE id = ? clause
finalizeCrawlRun_everyRow(table, runId, values, now) ==
    [i \in 1..Len(table) |->
        [table[i] EXCEPT !.finished_at = now, !.status = values.status,
                         !.sources_attempted = values.sourcesAttempted,
                         !.sources_success = values.sourcesSuccess,
                         !.sources_failed = values.sourcesFailed,
                         !.items_discovered = values.itemsDiscovered,
                         !.events_created = values.eventsCreated,
                         !.events_updated = values.eventsUpdated,
                         !.events_status_changed = values.eventsStatusChanged,
                         !.events_ignored = values.eventsIgnored,
                         !.writes = @ + 1]]

\* UPDATE crawl_runs SET finished_at = now, status = ..., ... WHERE id = runId
finalizeCrawlRun(table, runId, values, now) ==
    [i \in 1..Len(table) |->
        IF table[i].id = runId
        THEN [table[i] EXCEPT !.finished_at = now, !.status = values.status,
                              !.sources_attempted = values.sourcesAttempted,
                              !.sources_success = values.sourcesSuccess,
                              !.sources_failed = values.sourcesFailed,
                              !.items_discovered = values.itemsDiscovered,
                              !.events_created = values.eventsCreated,
                              !.events_updated = values.eventsUpdated,
                              !.events_status_changed = values.eventsStatusChanged,
                              !.events_ignored = values.eventsIgnored,
                              !.writes = @ + 1]
        ELSE table[i]]

\* ------------------------------------------------- direct upsert calls

\* the two sources direct callers name (name, url, and the links they cite)
CallSources ==
    {[name |-> "California Regulator", url |-> "https://leginfo.legislature.ca.gov",
      links |-> <<"https://example.gov/some-rule">>],
     [name |-> "News Wire", url |-> "https://news.example.com",
      links |-> <<"https://news.example.com", "https://news.example.com/a">>]}

\* the candidate of the repository's own upsert test (baseEvent)
BaseEvent ==
    [title |-> "Bill A",
     jurisdictionCountry |-> "USA",
     jurisdictionState |-> "California",
     stage |-> "introduced",
     ageBracket |-> "13-15",
     isUnder16Applicable |-> TRUE,
     impactScore |-> 4,
     likelihoodScore |-> 4,
     confidenceScore |-> 4,
     chiliScore |-> 3,
     summary |-> "Draft rule for age assurance and content safety.",
     businessImpact |-> "Moderate product updates needed.",
     requiredSolutions |-> <<"Age assurance", "Content controls">>,
     affectedMetaProducts |-> <<"Instagram", "Facebook">>,
     competitorResponses |-> <<"TikTok: monitoring">>,
     rawSourceText |-> "Calif. draft text includes age-verification requirements.",
     provenanceLinks |-> <<"https://example.gov/some-rule">>,
     effectiveDate |-> Null,
     publishedDate |-> "2026-01-30",
     sourceName |-> "California Regulator",
     sourceUrl |-> "https://leginfo.legislature.ca.gov"]

\* (country, state, title) as callers spell them: case variants, untrimmed
\* variants, and a second regulation with no country and no state
IdentityInputs ==
    {<<"USA", "California", "Bill A">>,
     <<"usa", "California", "Bill A">>,
     <<"USA", "california", "Bill A">>,
     <<"USA", "California", "bill a">>,
     <<" USA ", " California", "Bill A">>,
     <<"", Null, "Bill B">>}

\* candidates that differ from BaseEvent in one content field each, and two
\* whose raw values the call normalises (a score above 5, an empty summary)
ContentInputs ==
    {BaseEvent,
     [BaseEvent EXCEPT !.stage = "passed"],
     [BaseEvent EXCEPT !.ageBracket = "both"],
     [BaseEvent EXCEPT !.isUnder16Applicable = FALSE],
     [BaseEvent EXCEPT !.impactScore = 5],
     [BaseEvent EXCEPT !.impactScore = 7],
     [BaseEvent EXCEPT !.likelihoodScore = 2],
     [BaseEvent EXCEPT !.confidenceScore = 1],
     [BaseEvent EXCEPT !.chiliScore = 0],
     [BaseEvent EXCEPT !.summary = ""],
     [BaseEvent EXCEPT !.businessImpact = ""],
     [BaseEvent EXCEPT !.requiredSolutions = <<"Age assurance">>],
     [BaseEvent EXCEPT !.affectedMetaProducts = <<>>],
     [BaseEvent EXCEPT !.competitorResponses = <<>>],
     [BaseEvent EXCEPT !.rawSourceText = ""],
     [BaseEvent EXCEPT !.provenanceLinks = <<"https://example.gov/some-rule", "https://example.gov/b">>]}

EventInputs ==
    ContentInputs \cup
    {[BaseEvent EXCEPT !.jurisdictionCountry = k[1], !.jurisdictionState = k[2],
                       !.title = k[3], !.stage = st,
                       !.sourceName = s.name, !.sourceUrl = s.url,
                       !.provenanceLinks = s.links] :
        k \in IdentityInputs, st \in {"introduced", "passed"}, s \in CallSources}

NoResult == [id |-> "", status |-> "none", wasStatusChange |-> FALSE, previousStage |-> Null]

NoCall == [event |-> BaseEvent, result |-> NoResult, eventsBefore |-> {}, changesBefore |-> <<>>]

\* a freshly initialised schema: every table empty
Init ==
    /\ events = {}
    /\ statusChanges = <<>>
    /\ sources = {}
    /\ clock = 0
    /\ lastCall = NoCall
    /\ crawlRuns = <<>>
    /\ runs = <<>>
    /\ upstream = <<>>
    /\ probe = NoProbe

\* one call upsertRegulationEvent(db, event) by a direct caller
UpsertCall(event) ==
    /\ clock < MaxCalls
    /\ LET now == clock + 1
           out == upsertRegulationEvent(
                      [events |-> events, statusChanges |-> statusChanges, sources |-> sources],
                      event, now)
       IN  /\ events' = out.events
           /\ statusChanges' = out.statusChanges
           /\ sources' = out.sources
           /\ clock' = now
           /\ lastCall' = [event |-> event, result |-> out.result,
                           eventsBefore |-> events, changesBefore |-> statusChanges]
    /\ UNCHANGED <<crawlRuns, runs, upstream, probe>>

Next == \E event \in EventInputs : UpsertCall(event)

Spec == Init /\ [][Next]_vars

\* -------------------------------------------------------------- classifier

\* String.prototype.includes, and a regular expression that is an alternation of
\* literal words tested anywhere in the text
Contains(text, word) ==
    \E i \in 1..(Len(text) - Len(word) + 1) : SubSeq(text, i, i + Len(word) - 1) = word

ContainsAny(text, words) == \E word \in words : Contains(text, word)

\* JSON values as the service's answer holds them; numbers in tenths
JUndefined == [type |-> "undefined"]
JNull == [type |-> "null"]
JBool(b) == [type |-> "boolean", val |-> b]
JNum(tenths) == [type |-> "number", tenths |-> tenths]
JStr(text) == [type |-> "string", text |-> text]
JList(items) == [type |-> "array", items |-> items]

\* Number(value), in tenths; numeric strings tabulated
toNumber(value) ==
    CASE value.type = "number" -> [finite |-> TRUE, tenths |-> value.tenths]
      [] value.type = "null" -> [finite |-> TRUE, tenths |-> 0]
      [] value.type = "boolean" -> [finite |-> TRUE, tenths |-> IF value.val THEN 10 ELSE 0]
      [] value.type = "string" /\ value.text = "" -> [finite |-> TRUE, tenths |-> 0]
      [] value.type = "string" /\ value.text = "4" -> [finite |-> TRUE, tenths |-> 40]
      [] value.type = "string" /\ value.text = "2.5" -> [finite |-> TRUE, tenths |-> 25]
      [] value.type = "string" /\ value.text = "11" -> [finite |-> TRUE, tenths |-> 110]
      [] value.type = "array" /\ value.items = <<>> -> [finite |-> TRUE, tenths |-> 0]
      [] OTHER -> [finite |-> FALSE, tenths |-> 0]

\* Boolean(value)
toBoolean(value) ==
    CASE value.type = "boolean" -> value.val
      [] value.type = "number" -> value.tenths # 0
      [] value.type = "string" -> value.text # ""
      [] value.type = "array" -> TRUE
      [] OTHER -> FALSE

\* Math.round on tenths: the nearest integer, a half going up
mathRound(tenths) == (tenths + 5) \div 10

\* a plausible slip: the fraction cut off instead of rounded
analyzerNormalizeScore_truncating(value) ==
    LET number == toNumber(value)
        rounded == IF number.tenths >= 0 THEN number.tenths \div 10
                   ELSE -((-number.tenths) \div 10)
    IN  IF ~number.finite THEN 1
        ELSE IF rounded < 1 THEN 1 ELSE IF rounded > 5 THEN 5 ELSE rounded

\* the classifier's normalizeScore
analyzerNormalizeScore(value) ==
    LET number == toNumber(value)
        rounded == mathRound(number.tenths)
    IN  IF ~number.finite THEN 1
        ELSE IF rounded < 1 \/ rounded > 5 THEN (IF rounded < 1 THEN 1 ELSE 5)
        ELSE rounded

\* the ordered fallback patterns, each an alternation of words, tested on the
\* lower-cased text (the /i flag)
stageFallback ==
    <<[words |-> {"proposed"}, stage |-> "proposed"],
      [words |-> {"introduced", "draft", "bill"}, stage |-> "introduced"],
      [words |-> {"committee", "hear", "comment"}, stage |-> "committee_review"],
      [words |-> {"passed", "adopted", "approved"}, stage |-> "passed"],
      [words |-> {"enacted", "in force", "effective"}, stage |-> "enacted"],
      [words |-> {"amend"}, stage |-> "amended"],
      [words |-> {"withdrawn", "withdraw"}, stage |-> "withdrawn"],
      [words |-> {"rejected", "failed", "veto"}, stage |-> "rejected"]>>

\* rawStage.toLowerCase().replace(/\s+/g, "_"), tabulated
stageCandidate(rawStage) ==
    CASE rawStage = "PROPOSED" -> "proposed"
      [] rawStage = "Committee Review" -> "committee_review"
      [] rawStage = "Effective soon" -> "effective_soon"
      [] rawStage = "draft bill in committee" -> "draft_bill_in_committee"
      [] rawStage = "proposed amendment" -> "proposed_amendment"
      [] rawStage = "Amended act" -> "amended_act"
      [] rawStage = "Signed into law" -> "signed_into_law"
      [] OTHER -> rawStage

\* the text as a case-insensitive pattern sees it, tabulated
foldCase(text) ==
    CASE text = "PROPOSED" -> "proposed"
      [] text = "Committee Review" -> "committee review"
      [] text = "Effective soon" -> "effective soon"
      [] text = "Amended act" -> "amended act"
      [] text = "Signed into law" -> "signed into law"
      [] OTHER -> text

firstFallback(rawStage) ==
    LET hits == {k \in 1..Len(stageFallback) :
                    ContainsAny(foldCase(rawStage), stageFallback[k].words)}
    IN  IF hits = {} THEN "proposed"
        ELSE stageFallback[CHOOSE k \in hits : \A h \in hits : k <= h].stage

\* a plausible slip: the fallback patterns tried before the exact match
normalizeStage_fallbackFirst(rawStage) ==
    IF \E k \in 1..Len(stageFallback) :
           ContainsAny(foldCase(rawStage), stageFallback[k].words)
    THEN firstFallback(rawStage)
    ELSE IF stageCandidate(rawStage) \in allowedStages THEN stageCandidate(rawStage)
    ELSE "proposed"

normalizeStage(rawStage) ==
    IF stageCandidate(rawStage) \in allowedStages THEN stageCandidate(rawStage)
    ELSE firstFallback(rawStage)

normalizeAgeBracket(raw) ==
    IF raw = "" THEN "both"
    ELSE LET normalized == foldCase(raw)
         IN  IF Contains(normalized, "13-15")
                    \/ (Contains(normalized, "13") /\ Contains(normalized, "15"))
             THEN "13-15"
             ELSE IF Contains(normalized, "16-18")
                    \/ (Contains(normalized, "16") /\ Contains(normalized, "18"))
             THEN "16-18"
             ELSE "both"

\* sanitizeStringList: the non-blank strings of an array, trimmed, at most 20
sanitizeStringList(input) ==
    IF input.type # "array" THEN <<>>
    ELSE LET strings == SelectSeq(input.items, LAMBDA entry : entry.type = "string")
             trimmed == [i \in 1..Len(strings) |-> trim(strings[i].text)]
             kept == SelectSeq(trimmed, LAMBDA entry : entry # "")
         IN  SubSeq(kept, 1, IF Len(kept) < 20 THEN Len(kept) ELSE 20)

\* the safe default: not relevant
analyzePayloadDefaults(title) ==
    [isRelevant |-> FALSE, jurisdiction |-> <<"Unknown">>, stage |-> "proposed",
     ageBracket |-> "both", affectedMetaProducts |-> <<"Meta Family of Products">>,
     summary |-> "Not enough evidence to confirm teen-specific relevance for: " \o title,
     businessImpact |-> "Unknown", requiredSolutions |-> <<"Monitoring required">>,
     competitorResponses |-> <<>>,
     impactScore |-> 1, likelihoodScore |-> 1, confidenceScore |-> 1, chiliScore |-> 1]

\* heuristicFallback (compiled build): keywords of the item's own text decide
heuristicFallback(item) ==
    LET text == toLowerCase(item.title) \o "\n" \o toLowerCase(item.summary)
                    \o "\n" \o toLowerCase(item.rawText)
        hasChildSignal ==
            ContainsAny(text, {"child", "children", "teen", "minor", "under 13", "under13",
                               "under 16", "under16", "under 18", "under18", "youth",
                               "coppa"})
        hasRegulatorySignal ==
            ContainsAny(text, {"regulation", "law", "bill", "legislation", "act",
                               "guideline", "compliance", "dsa", "kosa", "online safety",
                               "age verification", "parental consent", "enforcement",
                               "commission", "parliament", "senate", "congress"})
    IN  IF ~(hasChildSignal /\ hasRegulatorySignal)
        THEN analyzePayloadDefaults(item.title)
        ELSE [isRelevant |-> TRUE, jurisdiction |-> item.source.jurisdiction,
              stage |-> normalizeStage(text),
              ageBracket |-> IF ContainsAny(text, {"under 13", "under13", "under 15",
                                                   "under15", "under 16", "under16",
                                                   "13-15"})
                             THEN "13-15" ELSE "both",
              affectedMetaProducts |-> <<"Facebook", "Instagram", "WhatsApp">>,
              summary |-> item.title \o ". " \o item.summary,
              businessImpact |->
                  "Potential child-safety compliance impact requiring legal and policy review.",
              requiredSolutions |-> <<"Policy review", "Age-assurance controls",
                                      "Regulatory monitoring">>,
              competitorResponses |-> <<>>,
              impactScore |-> 3, likelihoodScore |-> 3, confidenceScore |-> 2,
              chiliScore |-> 3]

\* no parsed answer
NoParsed == [type |-> "none"]


\* the classification request: the parsed answer, or the exception thrown on a
\* rejected fetch, a non-2xx status, a body that is no JSON, an answer without
\* text, or text without a JSON object
callService(service) ==
    CASE service.does = "reject" ->
            [threw |-> TRUE, message |-> service.message, parsed |-> NoParsed]
      [] ~service.ok ->
            [threw |-> TRUE, parsed |-> NoParsed,
             message |-> "MiniMax API request failed with " \o service.status \o " "
                             \o service.statusText \o ": "]
      [] ~service.bodyIsJson ->
            [threw |-> TRUE, message |-> "Unexpected token < in JSON", parsed |-> NoParsed]
      [] service.text = "" ->
            [threw |-> TRUE, parsed |-> NoParsed,
             message |-> "MiniMax API returned no analyzable text content"]
      [] service.parsed = NoParsed ->
            [threw |-> TRUE, parsed |-> NoParsed,
             message |-> "MiniMax API response could not be parsed as JSON"]
      [] OTHER -> [threw |-> FALSE, message |-> "", parsed |-> service.parsed]

\* the service answers 2xx with a text that parses to `parsed`
Answered(parsed) ==
    [does |-> "response", ok |-> TRUE, status |-> "200", statusText |-> "OK",
     bodyIsJson |-> TRUE, text |-> "{...}", parsed |-> parsed]

\* the service answers HTTP 401
Unauthorized ==
    [does |-> "response", ok |-> FALSE, status |-> "401", statusText |-> "Unauthorized",
     bodyIsJson |-> TRUE, text |-> "", parsed |-> NoParsed]

\* a non-blank string of the answer, trimmed, else the fallback
textOr(value, fallback) ==
    IF value.type = "string" /\ trim(value.text) # "" THEN trim(value.text) ELSE fallback

\* the AnalyzedItem built from a parsed answer
analysisFromParsed(item, parsed) ==
    [isRelevant |-> toBoolean(parsed.isRelevant),
     jurisdiction |-> IF parsed.jurisdiction.type = "string"
                           /\ trim(JoinWith(parsed.jurisdiction.text, ",")) # ""
                      THEN parsed.jurisdiction.text
                      ELSE item.source.jurisdiction,
     stage |-> normalizeStage(IF parsed.stage.type = "string" THEN parsed.stage.text ELSE ""),
     ageBracket |-> normalizeAgeBracket(IF parsed.ageBracket.type = "string"
                                        THEN parsed.ageBracket.text ELSE ""),
     affectedMetaProducts |->
         IF Len(sanitizeStringList(parsed.affectedMetaProducts)) > 0
         THEN sanitizeStringList(parsed.affectedMetaProducts)
         ELSE <<"Meta Family of Products">>,
     summary |-> textOr(parsed.summary, "Teen-related relevance note for " \o item.title),
     businessImpact |-> textOr(parsed.businessImpact, "Medium"),
     requiredSolutions |-> sanitizeStringList(parsed.requiredSolutions),
     competitorResponses |-> sanitizeStringList(parsed.competitorResponses),
     impactScore |-> analyzerNormalizeScore(parsed.impactScore),
     likelihoodScore |-> analyzerNormalizeScore(parsed.likelihoodScore),
     confidenceScore |-> analyzerNormalizeScore(parsed.confidenceScore),
     chiliScore |-> analyzerNormalizeScore(parsed.chiliScore)]

\* the authentication failures the compiled build remembers
isAuthFailure(message) ==
    ContainsAny(foldCase(message), {"401", "authentication_error", "login fail"})

\* a plausible slip: the guard on the remembered authentication failure left out
issuesRequest_unguarded(apiKey, authFailed) == apiKey # ""

\* the guards at the head of analyzeCrawledItem: the classification service is
\* asked only with a credential and, in the compiled build, only while no
\* authentication failure has been remembered
issuesRequest(apiKey, authFailed) == apiKey # "" /\ ~authFailed

\* a plausible slip: the early return on the remembered failure resets it
analyzeCrawledItem_guardClears(item, apiKey, service, build, minimaxAuthFailed) ==
    LET answer == callService(service)
    IN  IF ~issuesRequest(apiKey, build = "dist" /\ minimaxAuthFailed)
        THEN [threw |-> FALSE, value |-> analyzePayloadDefaults(item.title),
              minimaxAuthFailed |-> FALSE]
        ELSE IF ~answer.threw
        THEN [threw |-> FALSE, value |-> analysisFromParsed(item, answer.parsed),
              minimaxAuthFailed |-> minimaxAuthFailed]
        ELSE IF build = "src"
        THEN [threw |-> TRUE, value |-> analyzePayloadDefaults(item.title),
              minimaxAuthFailed |-> minimaxAuthFailed]
        ELSE [threw |-> FALSE, value |-> heuristicFallback(item),
              minimaxAuthFailed |-> minimaxAuthFailed \/ isAuthFailure(answer.message)]

\* analyzeCrawledItem.  The repository holds two builds of it: the TypeScript
\* source ("src") lets a failed request escape as an exception; the compiled
\* module ("dist") catches it, remembers an authentication failure in
\* minimaxAuthFailed, and answers with heuristicFallback.
analyzeCrawledItem(item, apiKey, service, build, minimaxAuthFailed) ==
    LET defaults == [threw |-> FALSE, value |-> analyzePayloadDefaults(item.title),
                     minimaxAuthFailed |-> minimaxAuthFailed]
        answer == callService(service)
    IN  IF ~issuesRequest(apiKey, build = "dist" /\ minimaxAuthFailed) THEN defaults
        ELSE IF ~answer.threw
        THEN [threw |-> FALSE, value |-> analysisFromParsed(item, answer.parsed),
              minimaxAuthFailed |-> minimaxAuthFailed]
        ELSE IF build = "src"
        THEN [threw |-> TRUE, value |-> analyzePayloadDefaults(item.title),
              minimaxAuthFailed |-> minimaxAuthFailed]
        ELSE [threw |-> FALSE, value |-> heuristicFallback(item),
              minimaxAuthFailed |-> minimaxAuthFailed \/ isAuthFailure(answer.message)]

\* ------------------------------------------------------ pipeline passes

\* two sources of the catalog (sourceRegistry), both ordinary feeds
SourceCA ==
    [id |-> "ca-leginfo", name |-> "California Regulator",
     url |-> "https://leginfo.legislature.ca.gov", kind |-> "rss",
     jurisdiction |-> <<"California", " USA">>]

SourceWire ==
    [id |-> "news-wire", name |-> "News Wire", url |-> "https://news.example.com",
     kind |-> "rss", jurisdiction |-> <<"USA">>]

selectedSources == <<SourceCA, SourceWire>>

\* a classifier answer that is relevant and passes the quality gate
GoodAnalysis ==
    [rejected |-> FALSE, isRelevant |-> TRUE,
     jurisdiction |-> <<"California", " USA">>,
     stage |-> "introduced", ageBracket |-> "13-15",
     affectedMetaProducts |-> <<"Instagram">>,
     summary |-> "California bill would require age verification for teen accounts on social apps.",
     businessImpact |-> "Moderate product updates needed.",
     requiredSolutions |-> <<>>, competitorResponses |-> <<>>,
     impactScore |-> 4, likelihoodScore |-> 4, confidenceScore |-> 4, chiliScore |-> 3]

\* a crawled item of a source, before its provenance is attached
CrawlItem(source, title, url, rawText) ==
    [title |-> title, url |-> url, summary |-> "digest", rawText |-> rawText,
     publishedAt |-> "2026-01-30T10:00:00Z", source |-> source,
     provenanceLinks |-> <<source.url, url>>]

\* upstream entries: a crawled item together with the classifier's answer for it
ItemCA_A ==
    [item |-> CrawlItem(SourceCA, "Bill A", "https://leginfo.legislature.ca.gov/a",
                        "full text of the bill"),
     analysis |-> GoodAnalysis,
     serviceStatus |-> "200"]

\* the same regulation reported by the wire, at a later stage
ItemWire_A ==
    [item |-> CrawlItem(SourceWire, "Bill A", "https://news.example.com/a",
                        "wire report on the bill"),
     analysis |-> [GoodAnalysis EXCEPT
                      !.jurisdiction = <<"USA", " California">>,
                      !.stage = "passed",
                      !.summary = "Senate passed the bill requiring age verification for teen accounts on social apps."],
     serviceStatus |-> "200"]

\* the same regulation, the classifier spelling the country in lower case
ItemWire_Acase ==
    [item |-> CrawlItem(SourceWire, "Bill A", "https://news.example.com/a2",
                        "wire report on the bill"),
     analysis |-> [GoodAnalysis EXCEPT !.jurisdiction = <<"California", " usa">>],
     serviceStatus |-> "200"]

\* another regulation, its title carrying markup
ItemWire_B ==
    [item |-> CrawlItem(SourceWire, "<em>Bill B</em>", "https://news.example.com/b",
                        "wire report on the bill"),
     analysis |-> [GoodAnalysis EXCEPT !.jurisdiction = <<"USA">>],
     serviceStatus |-> "200"]

\* the wire linking to the regulator's own page for Bill A
ItemWire_SameUrl ==
    [item |-> CrawlItem(SourceWire, "Bill A", "https://leginfo.legislature.ca.gov/a",
                        "wire report on the bill"),
     analysis |-> GoodAnalysis,
     serviceStatus |-> "200"]

\* the classifier's safe default: not relevant
ItemCA_Irrelevant ==
    [item |-> CrawlItem(SourceCA, "Bill B", "https://leginfo.legislature.ca.gov/b",
                        "full text of the bill"),
     analysis |-> [GoodAnalysis EXCEPT !.isRelevant = FALSE, !.stage = "proposed",
                                       !.ageBracket = "both", !.summary = "",
                                       !.impactScore = 1, !.likelihoodScore = 1,
                                       !.confidenceScore = 1, !.chiliScore = 1],
     serviceStatus |-> "200"]

\* relevant, but the summary too short for the quality gate
ItemCA_Thin ==
    [item |-> CrawlItem(SourceCA, "Bill B", "https://leginfo.legislature.ca.gov/b2",
                        "full text of the bill"),
     analysis |-> [GoodAnalysis EXCEPT !.summary = "Teen bill."],
     serviceStatus |-> "200"]

\* the classifier's settlement for an item, as the write loop receives it
settledAnalysis(item, service, build) ==
    LET out == analyzeCrawledItem(item, "key", service, build, FALSE)
    IN  [rejected |-> out.threw] @@ out.value

\* the service answers 401 and the classifier is the TypeScript source's: the
\* classification promise rejects
ItemCA_Rejected ==
    LET item == CrawlItem(SourceCA, "Bill B", "https://leginfo.legislature.ca.gov/b3",
                          "full text of the bill")
    IN  [item |-> item, analysis |-> settledAnalysis(item, Unauthorized, "src"),
         serviceStatus |-> "401"]

\* the service answers 401 and the classifier is the compiled build's: the
\* promise resolves with heuristicFallback(item)
ItemWire_Unauthorized ==
    LET item == [CrawlItem(SourceWire, "Bill B", "https://news.example.com/teen",
                           "teen safety bill introduced in senate")
                    EXCEPT !.summary = "senate introduces teen online safety bill requiring age verification."]
    IN  [item |-> item, analysis |-> settledAnalysis(item, Unauthorized, "dist"),
         serviceStatus |-> "401"]

\* what the two sources publish, in catalog order: the upstream content of a behaviour
UpstreamInputs ==
    {<<<<ItemCA_A>>, <<ItemWire_A>>>>,
     <<<<ItemCA_A>>, <<ItemWire_B>>>>,
     <<<<ItemCA_A, ItemCA_Irrelevant>>, <<ItemWire_Acase>>>>,
     <<<<ItemCA_A>>, <<ItemWire_SameUrl, ItemWire_B>>>>,
     <<<<ItemCA_Thin, ItemCA_Rejected>>, <<ItemWire_Unauthorized>>>>,
     <<<<>>, <<>>>>}

RECURSIVE Flatten(_)
Flatten(lists) ==
    IF lists = <<>> THEN <<>> ELSE Head(lists) \o Flatten(Tail(lists))

\* crawlSources as the pipeline sees it: one sourceResults entry per source, a
\* failed source (index in `failed`) carrying an error and contributing no items
crawlSources(selected, content, failed) ==
    [items |-> Flatten([i \in 1..Len(selected) |->
                           IF i \in failed THEN <<>> ELSE content[i]]),
     sourceResults |-> [i \in 1..Len(selected) |->
                           [sourceId |-> selected[i].id,
                            itemCount |-> IF i \in failed THEN 0 ELSE Len(content[i]),
                            error |-> IF i \in failed THEN "HTTP 503 Service Unavailable"
                                      ELSE Null]]]

NoSummary ==
    [runId |-> 0, status |-> "none", sourcesAttempted |-> 0, sourcesSuccess |-> 0,
     sourcesFailed |-> 0, itemsDiscovered |-> 0, eventsCreated |-> 0, eventsUpdated |-> 0,
     eventsStatusChanged |-> 0, eventsIgnored |-> 0, sourceErrors |-> <<>>]

\* POST /api/crawl before it has answered
NoResponse == [status |-> 0, summary |-> NoSummary, error |-> ""]

\* no exception has left the invocation
NoError == [isError |-> FALSE, message |-> ""]

\* what can be thrown inside the try block: an Error, or a value that is none
ThrownInputs ==
    {[isError |-> TRUE, message |-> "crawl aborted"],
     [isError |-> FALSE, message |-> "boom"]}

\* the catch block's rethrow: the Error itself, or a new Error for any other value
rethrown(error) ==
    IF error.isError THEN error
    ELSE [isError |-> TRUE, message |-> "Unknown ingestion failure"]

\* POST /api/crawl, try branch: res.json(summary)
crawlOkResponse(summary) == [status |-> 200, summary |-> summary, error |-> ""]

\* a plausible slip: the handler answering the error with the default status
crawlFailedResponse_ok(error) ==
    [status |-> 200, summary |-> NoSummary,
     error |-> IF error.isError THEN error.message ELSE "crawl failed"]

\* POST /api/crawl, catch branch: res.status(500).json({ error: message })
crawlFailedResponse(error) ==
    [status |-> 500, summary |-> NoSummary,
     error |-> IF error.isError THEN error.message ELSE "crawl failed"]

\* the locals of an invocation right after createCrawlRun, awaiting crawlSources;
\* the *At fields record the store at the invocation's start and end, and
\* `outcomes` what the write loop counted for each results[j], in loop order
newRun(runId, now) ==
    [pc |-> "crawl", runId |-> runId,
     crawlResult |-> [items |-> <<>>, sourceResults |-> <<>>],
     i |-> 0, sourcesSuccess |-> 0, sourcesFailed |-> 0, itemsDiscovered |-> 0,
     eventsCreated |-> 0, eventsUpdated |-> 0, eventsStatusChanged |-> 0,
     eventsIgnored |-> 0, sourceErrors |-> <<>>, seenDeduplicationKeys |-> {},
     summary |-> NoSummary, raised |-> NoError, response |-> NoResponse,
     startedAt |-> now, finishedAt |-> 0,
     eventsAtStart |-> events, changesAtStart |-> statusChanges,
     eventsAtEnd |-> {}, changesAtEnd |-> <<>>, outcomes |-> <<>>]

\* the counters handed to finalizeCrawlRun and returned in the CrawlSummary
runValues(run, status, attempted) ==
    [status |-> status, sourcesAttempted |-> attempted,
     sourcesSuccess |-> run.sourcesSuccess, sourcesFailed |-> run.sourcesFailed,
     itemsDiscovered |-> run.itemsDiscovered, eventsCreated |-> run.eventsCreated,
     eventsUpdated |-> run.eventsUpdated, eventsStatusChanged |-> run.eventsStatusChanged,
     eventsIgnored |-> run.eventsIgnored]

\* a plausible slip: `partial` only when no source succeeded
passStatus_bySuccess(run) ==
    IF run.sourcesSuccess = 0 THEN "partial" ELSE "completed"

\* const status = sourcesFailed > 0 ? "partial" : "completed"
passStatus(run) ==
    IF run.sourcesFailed > 0 THEN "partial" ELSE "completed"

\* runIngestionPipeline up to its first await: createCrawlRun, locals, crawlSources called
StartRun ==
    /\ Len(runs) < MaxRuns
    /\ LET now == clock + 1
       IN  /\ crawlRuns' = createCrawlRun(crawlRuns, now)
           /\ runs' = Append(runs, newRun(Len(crawlRuns) + 1, now))
           /\ clock' = now
    /\ UNCHANGED <<events, statusChanges, sources, lastCall, upstream, probe>>

\* a plausible slip: the error branch without its `continue`
RECURSIVE countSources_noContinue(_, _)
countSources_noContinue(run, results) ==
    IF results = <<>> THEN run
    ELSE LET result == Head(results)
             failed == result.error # Null /\ result.error # ""
             counted ==
                 [run EXCEPT !.sourcesFailed = IF failed THEN @ + 1 ELSE @,
                             !.sourceErrors =
                                 IF failed
                                 THEN Append(@, [sourceId |-> result.sourceId,
                                                 message |-> result.error])
                                 ELSE @,
                             !.sourcesSuccess = @ + 1]
         IN  countSources_noContinue(counted, Tail(results))

\* the for-loop over crawlResult.sourceResults
RECURSIVE countSources(_, _)
countSources(run, results) ==
    IF results = <<>> THEN run
    ELSE LET result == Head(results)
             known == \E k \in 1..Len(selectedSources) : selectedSources[k].id = result.sourceId
             counted ==
                 IF ~known THEN run
                 ELSE IF result.error # Null /\ result.error # ""
                 THEN [run EXCEPT !.sourcesFailed = @ + 1,
                                  !.sourceErrors = Append(@, [sourceId |-> result.sourceId,
                                                              message |-> result.error])]
                 ELSE [run EXCEPT !.sourcesSuccess = @ + 1]
         IN  countSources(counted, Tail(results))

\* crawlSources resolves, the sources in `failed` having failed: the source
\* results are counted and the first batch's classifications awaited
CrawlReturns(r, failed) ==
    /\ runs[r].pc = "crawl"
    /\ LET crawlResult == crawlSources(selectedSources, upstream, failed)
           counted == countSources([runs[r] EXCEPT !.crawlResult = crawlResult],
                                   crawlResult.sourceResults)
       IN  runs' = [runs EXCEPT ![r] = [counted EXCEPT !.pc = "write"]]
    /\ UNCHANGED <<events, statusChanges, sources, clock, lastCall, crawlRuns, upstream, probe>>

\* crawlSources rejects with `error`: the catch block finalizes the run as failed
\* and rethrows, and POST /api/crawl answers the exception
CrawlThrows(r, error) ==
    /\ runs[r].pc = "crawl"
    /\ LET now == clock + 1
           run == runs[r]
       IN  /\ crawlRuns' = finalizeCrawlRun(crawlRuns, run.runId,
                                            runValues(run, "failed", 0), now)
           /\ runs' = [runs EXCEPT ![r] = [run EXCEPT !.pc = "thrown", !.finishedAt = now,
                                                      !.raised = rethrown(error),
                                                      !.response =
                                                          crawlFailedResponse(rethrown(error)),
                                                      !.eventsAtEnd = events,
                                                      !.changesAtEnd = statusChanges]]
           /\ clock' = now
    /\ UNCHANGED <<events, statusChanges, sources, lastCall, upstream, probe>>

\* a plausible slip: the call of upsertAnalysedItem without its try/catch
countedAsIgnored_uncaught(upsertStatus) == upsertStatus = "ignored"

\* the outcomes of the awaited upsertAnalysedItem that add to eventsIgnored: the
\* status "ignored", and an exception (caught and logged)
countedAsIgnored(upsertStatus) == upsertStatus \in {"ignored", "threw"}

\* one iteration of the write loop over results[j] of the settled batch, as a
\* function of the run's locals and the store: a rejected promise or a repeated
\* deduplication key is counted as ignored, anything else goes to
\* upsertAnalysedItem and is counted by its status
writeLoopStep(run0, db, now) ==
    LET run == [run0 EXCEPT !.i = @ + 1, !.itemsDiscovered = @ + 1]
        entry == run.crawlResult.items[run.i]
        deduplicationKey == buildDeduplicationKey(entry.item, entry.analysis)
        out == upsertAnalysedItem(db, entry.item, entry.analysis, now)
    IN  IF entry.analysis.rejected \/ deduplicationKey \in run.seenDeduplicationKeys
        THEN [wrote |-> FALSE, db |-> db, status |-> "skipped",
              run |-> [run EXCEPT !.eventsIgnored = @ + 1,
                                  !.outcomes = Append(@, [status |-> "skipped",
                                                          item |-> entry.item.url])]]
        ELSE [wrote |-> TRUE, status |-> out.status,
              db |-> [events |-> out.events, statusChanges |-> out.statusChanges,
                      sources |-> out.sources],
              run |-> [run EXCEPT
                         !.seenDeduplicationKeys = @ \cup {deduplicationKey},
                         !.eventsCreated = IF out.status = "created" THEN @ + 1 ELSE @,
                         !.eventsUpdated = IF out.status = "updated" THEN @ + 1 ELSE @,
                         !.eventsStatusChanged =
                             IF out.status = "status_changed" THEN @ + 1 ELSE @,
                         !.eventsIgnored =
                             IF countedAsIgnored(out.status) THEN @ + 1 ELSE @,
                         !.outcomes = Append(@, [status |-> out.status,
                                                 item |-> entry.item.url])]]

\* one iteration of the write loop: results[j] of the settled batch
ProcessItem(r) ==
    /\ runs[r].pc = "write"
    /\ runs[r].i < Len(runs[r].crawlResult.items)
    /\ \E step \in {writeLoopStep(runs[r],
                                   [events |-> events, statusChanges |-> statusChanges,
                                    sources |-> sources], clock + 1)} :
           /\ runs' = [runs EXCEPT ![r] = step.run]
           /\ events' = step.db.events
           /\ statusChanges' = step.db.statusChanges
           /\ sources' = step.db.sources
           /\ clock' = IF step.wrote THEN clock + 1 ELSE clock
    /\ UNCHANGED <<lastCall, crawlRuns, upstream, probe>>

\* the loops are over: finalizeCrawlRun with completed/partial, the summary
\* returned, and POST /api/crawl answers with it
Finish(r) ==
    /\ runs[r].pc = "write"
    /\ runs[r].i = Len(runs[r].crawlResult.items)
    /\ LET now == clock + 1
           run == runs[r]
           status == passStatus(run)
           values == runValues(run, status, Len(run.crawlResult.sourceResults))
           summary == [runId |-> run.runId, status |-> status,
                       sourcesAttempted |-> values.sourcesAttempted,
                       sourcesSuccess |-> run.sourcesSuccess,
                       sourcesFailed |-> run.sourcesFailed,
                       itemsDiscovered |-> run.itemsDiscovered,
                       eventsCreated |-> run.eventsCreated,
                       eventsUpdated |-> run.eventsUpdated,
                       eventsStatusChanged |-> run.eventsStatusChanged,
                       eventsIgnored |-> run.eventsIgnored,
                       sourceErrors |-> run.sourceErrors]
       IN  /\ crawlRuns' = finalizeCrawlRun(crawlRuns, run.runId, values, now)
           /\ runs' = [runs EXCEPT ![r] =
                 [run EXCEPT !.pc = "returned", !.finishedAt = now,
                             !.eventsAtEnd = events, !.changesAtEnd = statusChanges,
                             !.summary = summary,
                             !.response = crawlOkResponse(summary)]]
           /\ clock' = now
    /\ UNCHANGED <<events, statusChanges, sources, lastCall, upstream, probe>>

\* an empty store, and some upstream content that stays as it is
InitPipeline ==
    /\ events = {}
    /\ statusChanges = <<>>
    /\ sources = {}
    /\ clock = 0
    /\ lastCall = NoCall
    /\ crawlRuns = <<>>
    /\ runs = <<>>
    /\ upstream \in UpstreamInputs
    /\ probe = NoProbe

NextPipeline ==
    \/ StartRun
    \/ \E r \in 1..Len(runs), failed \in SUBSET (1..Len(selectedSources)) :
           CrawlReturns(r, failed)
    \/ \E r \in 1..Len(runs), error \in ThrownInputs : CrawlThrows(r, error)
    \/ \E r \in 1..Len(runs) : ProcessItem(r)
    \/ \E r \in 1..Len(runs) : Finish(r)

SpecPipeline == InitPipeline /\ [][NextPipeline]_vars

\* ------------------------------------------------------------ claims

\* the identity the specification names: country|state|title, lower-cased
identityKey(country, state, title) ==
    toLowerCase(country) \o "|" \o toLowerCase(state) \o "|" \o toLowerCase(title)

\* the identity of a candidate and of a row
eventKey(event) ==
    identityKey(eventCountry(event), normalizeJurisdictionState(event.jurisdictionState),
                event.title)

rowKey(r) == identityKey(r.jurisdiction_country, r.jurisdiction_state, r.title)

\* the SHA-1 hex digest of a string
sha1Hex(text) == "sha1(" \o text \o ")"

\* the row is stored for exactly the candidate's country, state and title
sameTriple(r, event) ==
    /\ r.jurisdiction_country = eventCountry(event)
    /\ r.jurisdiction_state = normalizeJurisdictionState(event.jurisdictionState)
    /\ r.title = event.title

\* a direct call has been made, and it is the last thing that happened
called == lastCall.result.status # "none"

\* the row's content columns hold the candidate's values as the call normalises them
contentEquals(r, event) ==
    LET n == normalizeEvent(event)
    IN  /\ r.stage = n.stage
        /\ r.age_bracket = n.ageBracket
        /\ r.is_under16_applicable = (IF n.isUnder16Applicable THEN 1 ELSE 0)
        /\ r.impact_score = n.impactScore
        /\ r.likelihood_score = n.likelihoodScore
        /\ r.confidence_score = n.confidenceScore
        /\ r.chili_score = n.chiliScore
        /\ r.summary = n.summary
        /\ r.business_impact = n.businessImpact
        /\ r.required_solutions = stringifyJsonArray(n.requiredSolutions)
        /\ r.affected_products = stringifyJsonArray(n.affectedMetaProducts)
        /\ r.competitor_responses = stringifyJsonArray(n.competitorResponses)
        /\ r.raw_source_text = n.rawSourceText
        /\ r.provenance_links = stringifyJsonArray(n.provenanceLinks)

\* C1: idempotence of upsertRegulationEvent.  A call on a store holding no row
\* of the candidate's identity returns `created` with the identity's id; and when
\* the call right after a `created` one repeats its candidate, it returns
\* `unchanged` with the same id, the store holds exactly one row of that identity,
\* no StatusChange row exists for it, and the event row differs from the one
\* before that second call in last_crawled_at/updated_at at most.
C1_Step ==
    (clock' # clock) =>
        LET c == lastCall'.event
            res == lastCall'.result
            id == sha1Hex(eventKey(c))
        IN  /\ (~\E r \in events : rowKey(r) = eventKey(c)) =>
                   (res.status = "created" /\ res.id = id)
            /\ (lastCall.result.status = "created" /\ lastCall.event = c) =>
                   /\ res.status = "unchanged"
                   /\ res.id = lastCall.result.id
                   /\ Cardinality({r \in events' : rowKey(r) = eventKey(c)}) = 1
                   /\ \A i \in 1..Len(statusChanges') : statusChanges'[i].event_id # res.id
                   /\ Cardinality(events') = Cardinality(events)
                   /\ \E r \in events, q \in events' :
                          /\ r.id = res.id
                          /\ q = [r EXCEPT !.updated_at = q.updated_at,
                                           !.last_crawled_at = q.last_crawled_at]
                          /\ events' \ {q} = events \ {r}

C1_UpsertIdempotent == [][C1_Step]_vars

\* C1 witness: a call answered `unchanged` on a row the call just before created
C1_Witness ==
    /\ lastCall.result.status = "unchanged"
    /\ \E r \in lastCall.eventsBefore :
           /\ r.id = lastCall.result.id
           /\ r.created_at = clock - 1
           /\ r.updated_at = clock - 1
           /\ contentEquals(r, lastCall.event)

\* C2: a call whose candidate names a stored row's country, state and title with
\* another stage returns `status_changed` with previousStage the stored stage,
\* sets the row's stage to the candidate's, and appends exactly one StatusChange
\* row (previous_stage the stored stage, new_stage the candidate's).
C2_StageChangeRecorded ==
    called =>
        \A r \in lastCall.eventsBefore :
            (sameTriple(r, lastCall.event) /\ r.stage # lastCall.event.stage) =>
                /\ lastCall.result.status = "status_changed"
                /\ lastCall.result.id = r.id
                /\ lastCall.result.previousStage = r.stage
                /\ \E q \in events : q.id = r.id /\ q.stage = lastCall.event.stage
                /\ statusChanges =
                       Append(lastCall.changesBefore,
                              [event_id |-> r.id, previous_stage |-> r.stage,
                               new_stage |-> lastCall.event.stage, changed_at |-> clock])

\* C2 witness: a stored `introduced` row has just been upserted as `passed`
C2_Witness ==
    /\ lastCall.result.status = "status_changed"
    /\ lastCall.result.previousStage = "introduced"
    /\ lastCall.event.stage = "passed"
    /\ Len(statusChanges) = Len(lastCall.changesBefore) + 1

\* the candidate differs from the row in a content field the claim lists
contentDiffers(r, event) ==
    LET n == normalizeEvent(event)
    IN  \/ r.age_bracket # n.ageBracket
        \/ r.is_under16_applicable # (IF n.isUnder16Applicable THEN 1 ELSE 0)
        \/ r.impact_score # n.impactScore
        \/ r.likelihood_score # n.likelihoodScore
        \/ r.confidence_score # n.confidenceScore
        \/ r.chili_score # n.chiliScore
        \/ r.summary # n.summary
        \/ r.business_impact # n.businessImpact
        \/ r.required_solutions # stringifyJsonArray(n.requiredSolutions)
        \/ r.affected_products # stringifyJsonArray(n.affectedMetaProducts)
        \/ r.competitor_responses # stringifyJsonArray(n.competitorResponses)
        \/ r.raw_source_text # n.rawSourceText
        \/ r.provenance_links # stringifyJsonArray(n.provenanceLinks)

\* C3: a call whose candidate names a stored row's country, state and title and
\* its stage, and differs from the row in at least one content field (age bracket,
\* under-16 applicability, a score, summary, business impact, a list, raw text,
\* provenance), returns `updated`, leaves every content column equal to the
\* candidate's value, and writes no StatusChange row.
C3_ContentChangeUpdates ==
    called =>
        \A r \in lastCall.eventsBefore :
            (/\ sameTriple(r, lastCall.event)
             /\ r.stage = lastCall.event.stage
             /\ contentDiffers(r, lastCall.event)) =>
                /\ lastCall.result.status = "updated"
                /\ \E q \in events : q.id = r.id /\ contentEquals(q, lastCall.event)
                /\ statusChanges = lastCall.changesBefore

\* C4: a call whose candidate equals a stored row's country, state and title after
\* lower-casing resolves to that row: it returns the row's id with status
\* unchanged, updated or status_changed, and inserts no second row.
C4_CaseInsensitiveIdentity ==
    called =>
        \A r \in lastCall.eventsBefore :
            rowKey(r) = eventKey(lastCall.event) =>
                /\ lastCall.result.status \in {"unchanged", "updated", "status_changed"}
                /\ lastCall.result.id = r.id
                /\ Cardinality(events) = Cardinality(lastCall.eventsBefore)

\* C5: a call naming a stored row's country, state and title from another source
\* (another sourceUrl and sourceName, other provenance links) resolves to the
\* row's id and leaves exactly one row of that identity.
C5_RediscoveryFromOtherSource ==
    called =>
        \A r \in lastCall.eventsBefore :
            (/\ sameTriple(r, lastCall.event)
             /\ r.source_url # lastCall.event.sourceUrl
             /\ r.provenance_links # stringifyJsonArray(lastCall.event.provenanceLinks)) =>
                /\ lastCall.result.status \in {"unchanged", "updated", "status_changed"}
                /\ lastCall.result.id = r.id
                /\ Cardinality({q \in events : rowKey(q) = rowKey(r)}) = 1
                /\ Cardinality(events) = Cardinality(lastCall.eventsBefore)

\* C5 witness: a row first stored from one source has been upserted from the other
C5_Witness ==
    /\ called
    /\ \E r \in lastCall.eventsBefore :
           /\ sameTriple(r, lastCall.event)
           /\ r.source_url # lastCall.event.sourceUrl
           /\ lastCall.result.id = r.id
           /\ lastCall.result.status = "updated"

\* C6: every event row's id is the SHA-1 of its own lower-cased
\* country|state|title, and no two rows share a lower-cased (country, state, title).
C6_IdIsDigestOfIdentity ==
    /\ \A r \in events : r.id = sha1Hex(rowKey(r))
    /\ \A r, q \in events : rowKey(r) = rowKey(q) => r = q

\* C6 witness: two regulations are stored, one of them by a call that met a
\* case variant of its own identity
C6_Witness ==
    /\ Cardinality(events) = 2
    /\ called
    /\ \E r \in events : rowKey(r) = eventKey(lastCall.event) /\ ~sameTriple(r, lastCall.event)

\* ---------------------------------------------------- claims on the passes

\* the invocation has ended, by returning its summary or by rethrowing
ended(run) == run.pc \in {"returned", "thrown"}

\* passes a and b ran in succession over the same crawled items and classifier
\* answers: both returned, b started after a had ended, and no other invocation
\* was at work between a's start and b's end
Successive(a, b) ==
    /\ a # b
    /\ runs[a].pc = "returned"
    /\ runs[b].pc = "returned"
    /\ runs[a].finishedAt < runs[b].startedAt
    /\ runs[a].crawlResult.items = runs[b].crawlResult.items
    /\ \A c \in (1..Len(runs)) \ {a, b} :
           \/ runs[c].pc \in {"crawl", "thrown"}
           \/ ended(runs[c]) /\ runs[c].finishedAt < runs[a].startedAt
           \/ runs[c].startedAt > runs[b].finishedAt

\* an event row without the two timestamps every upsert refreshes
contentOf(row) == [row EXCEPT !.updated_at = 0, !.last_crawled_at = 0]

\* C7: when a pass over the same crawled items and classifier answers follows a
\* completed pass, the second pass reports eventsCreated = eventsUpdated =
\* eventsStatusChanged = 0, creates no event row and appends no StatusChange row.
C7_RerunReportsUnchanged ==
    \A a, b \in 1..Len(runs) :
        (Successive(a, b) /\ runs[a].summary.status = "completed") =>
            /\ runs[b].summary.eventsCreated = 0
            /\ runs[b].summary.eventsUpdated = 0
            /\ runs[b].summary.eventsStatusChanged = 0
            /\ {r.id : r \in runs[b].eventsAtEnd} = {r.id : r \in runs[b].eventsAtStart}
            /\ runs[b].changesAtEnd = runs[b].changesAtStart

\* C8: pipeline idempotence.  Of two passes run in succession over the same
\* crawled items and classifier answers, the second leaves the same event rows as
\* the first, equal in every column but updated_at/last_crawled_at, and as many.
C8_PipelineIdempotent ==
    \A a, b \in 1..Len(runs) :
        Successive(a, b) =>
            /\ {contentOf(r) : r \in runs[b].eventsAtEnd}
                   = {contentOf(r) : r \in runs[a].eventsAtEnd}
            /\ Cardinality(runs[b].eventsAtEnd) = Cardinality(runs[a].eventsAtEnd)

\* C8 witness: the second of two successive passes rewrote a stored row, moving
\* its stage, and ended on the rows the first had left
C8_Witness ==
    \E a, b \in 1..Len(runs) :
        /\ Successive(a, b)
        /\ runs[a].eventsAtEnd # {}
        /\ runs[b].summary.eventsStatusChanged > 0
        /\ runs[b].eventsAtEnd # runs[a].eventsAtEnd

\* the CrawlRun row of an invocation
runRow(run) == crawlRuns[run.runId]

C9_Rows ==
    /\ Len(crawlRuns) = Len(runs)
    /\ \A r \in 1..Len(runs) :
           /\ runs[r].runId \in 1..Len(crawlRuns)
           /\ \A q \in 1..Len(runs) : runs[q].runId = runs[r].runId => q = r
           /\ runRow(runs[r]).writes = (IF ended(runs[r]) THEN 1 ELSE 0)
           /\ (runRow(runs[r]).status = "running") <=> ~ended(runs[r])

C9_Step ==
    /\ \A k \in 1..Len(crawlRuns) :
           crawlRuns[k].status # "running" => crawlRuns'[k] = crawlRuns[k]
    /\ Len(crawlRuns') = Len(crawlRuns) + (Len(runs') - Len(runs))
    /\ \A k \in (Len(crawlRuns) + 1)..Len(crawlRuns') :
           crawlRuns'[k].status = "running" /\ crawlRuns'[k].writes = 0

\* C9: every invocation has exactly one CrawlRun row of its own, created in status
\* `running`; the row has been written once when the invocation has ended, by
\* return (with or without source failures) or by exception, and not before; a
\* finalized row is never written again and never returns to `running`.
C9_RunFinalizedOnce == []C9_Rows /\ [][C9_Step]_vars

\* C9 witness: one invocation ended by exception and one returned after a source
\* failure, each with its row written once
C9_Witness ==
    \E a, b \in 1..Len(runs) :
        /\ runs[a].pc = "thrown"
        /\ runs[b].pc = "returned"
        /\ runs[b].sourcesFailed > 0
        /\ runRow(runs[a]).writes = 1
        /\ runRow(runs[b]).writes = 1

\* the sources whose crawl ended in an error, counted from the crawl's result
failedSources(run) ==
    Cardinality({k \in 1..Len(run.crawlResult.sourceResults) :
                    run.crawlResult.sourceResults[k].error # Null})

\* C10: a run's stored status is `completed` exactly when its pass returned with
\* no failed source, `partial` exactly when it returned with at least one,
\* `failed` exactly when an exception escaped it; and the returned CrawlSummary
\* carries the stored status.
C10_StatusMatchesOutcome ==
    \A r \in 1..Len(runs) :
        LET run == runs[r]
            row == runRow(run)
        IN  /\ (row.status = "completed") <=> (run.pc = "returned" /\ failedSources(run) = 0)
            /\ (row.status = "partial") <=> (run.pc = "returned" /\ failedSources(run) > 0)
            /\ (row.status = "failed") <=> (run.pc = "thrown")
            /\ run.pc = "returned" => run.summary.status = row.status

\* C10 witness: one run stored as `partial` although one of its sources
\* succeeded, another stored as `failed`
C10_Witness ==
    \E a, b \in 1..Len(runs) :
        /\ runRow(runs[a]).status = "partial"
        /\ runs[a].summary.status = "partial"
        /\ runs[a].sourcesSuccess > 0
        /\ runRow(runs[b]).status = "failed"

\* C11: when an exception has escaped an invocation, its run row is finalized with
\* status `failed` and finished_at set, an Error has been re-raised to the
\* caller, no CrawlSummary was returned, and POST /api/crawl has answered HTTP 500
\* without a summary.
C11_ThrowFinalizesFailed ==
    \A r \in 1..Len(runs) :
        runs[r].pc = "thrown" =>
            /\ runRow(runs[r]).status = "failed"
            /\ runRow(runs[r]).finished_at = runs[r].finishedAt
            /\ runs[r].raised.isError
            /\ runs[r].summary = NoSummary
            /\ runs[r].response.status = 500
            /\ runs[r].response.summary = NoSummary

\* C11 witness: a value that is no Error escaped an invocation while another
\* invocation returned its summary
C11_Witness ==
    \E a, b \in 1..Len(runs) :
        /\ runs[a].pc = "thrown"
        /\ runs[a].raised.message = "Unknown ingestion failure"
        /\ runs[a].response.status = 500
        /\ runs[b].pc = "returned"
        /\ runs[b].response.status = 200

\* ---------------------------------------------------------------- crawler

\* sources asked of crawlSources in one call
MaxSites == 2

isAllowedKind(kind) == kind \in {"webpage", "rss", "news_search", "twitter_search"}

\* fetchWithTimeout / crawlTwitterRecentSearch against what the network does:
\* the parsed items of a 2xx answer, or the exception thrown
fetchWithTimeout(net) ==
    CASE net.does = "response" /\ net.ok -> [outcome |-> "ok", items |-> net.items]
      [] net.does = "response" /\ ~net.ok ->
            [outcome |-> "throws", isError |-> TRUE,
             message |-> "HTTP " \o net.status \o " " \o net.statusText]
      [] net.does = "abort" ->
            [outcome |-> "throws", isError |-> TRUE,
             message |-> "This operation was aborted"]
      [] OTHER ->
            [outcome |-> "throws", isError |-> net.isError, message |-> net.message]

\* the result of crawlSource for a source that yields nothing
failedSource(source, message) ==
    [threw |-> FALSE, sourceId |-> source.id, itemCount |-> 0, error |-> message,
     items |-> <<>>]

\* a plausible slip: crawlSource without its try/catch
crawlSource_uncaught(source, net, bearerToken) ==
    IF ~isAllowedKind(source.kind)
    THEN failedSource(source, "Unsupported source kind: " \o source.kind)
    ELSE IF source.kind = "twitter_search" /\ bearerToken = ""
    THEN failedSource(source, "X_BEARER_TOKEN not set")
    ELSE LET fetched == fetchWithTimeout(net)
         IN  IF fetched.outcome = "throws"
             THEN [failedSource(source, fetched.message) EXCEPT !.threw = TRUE]
             ELSE [threw |-> FALSE, sourceId |-> source.id,
                   itemCount |-> Len(fetched.items), error |-> Null,
                   items |-> fetched.items]

crawlSource(source, net, bearerToken) ==
    IF ~isAllowedKind(source.kind)
    THEN failedSource(source, "Unsupported source kind: " \o source.kind)
    ELSE IF source.kind = "twitter_search" /\ bearerToken = ""
    THEN failedSource(source, "X_BEARER_TOKEN not set")
    ELSE LET fetched == fetchWithTimeout(net)
         IN  IF fetched.outcome = "throws"
             THEN failedSource(source, IF fetched.isError THEN fetched.message
                                       ELSE "Unknown crawl error")
             ELSE [threw |-> FALSE, sourceId |-> source.id,
                   itemCount |-> Len(fetched.items), error |-> Null,
                   items |-> fetched.items]

\* normalizeUrl: blank stays blank, an absolute URL is trimmed, anything else is
\* resolved against the source's URL (tabulated for the relative links in use)
normalizeUrl(rawUrl, fallbackBase) ==
    CASE trim(rawUrl) = "" -> ""
      [] rawUrl = "docs/2" -> "https://example.gov/docs/2"
      [] OTHER -> trim(rawUrl)

\* the crawler's own hash of an item's text
normalizeTextForHash(text) == toLowerCase(trim(text))

crawlerHashText(text) == "sha1(" \o normalizeTextForHash(text) \o ")"

\* a plausible slip: the key without the source's id
crawledItemKey_urlOnly(item) ==
    IF toLowerCase(trim(item.url)) # ""
    THEN toLowerCase(trim(item.url))
    ELSE "text:" \o crawlerHashText(IF item.rawText # "" THEN item.rawText
                                    ELSE item.title \o " " \o item.summary)

crawledItemKey(item) ==
    IF toLowerCase(trim(item.url)) # ""
    THEN item.source.id \o "::" \o toLowerCase(trim(item.url))
    ELSE item.source.id \o "::text:"
             \o crawlerHashText(IF item.rawText # "" THEN item.rawText
                                ELSE item.title \o " " \o item.summary)

\* dedupeCrawledItems: the first item of every key, in order
RECURSIVE dedupeFrom(_, _)
dedupeFrom(items, seenKeys) ==
    IF items = <<>> THEN <<>>
    ELSE IF crawledItemKey(Head(items)) \in seenKeys
    THEN dedupeFrom(Tail(items), seenKeys)
    ELSE <<Head(items)>> \o dedupeFrom(Tail(items), seenKeys \cup {crawledItemKey(Head(items))})

dedupeCrawledItems(items) == dedupeFrom(items, {})

\* the items one source run adds to allItems: those with a URL, with their
\* title trimmed, their URL normalized, their source and provenance attached
RECURSIVE itemsOfRun(_, _)
itemsOfRun(source, items) ==
    IF items = <<>> THEN <<>>
    ELSE LET item == Head(items)
             normalizedUrl == normalizeUrl(item.url, source.url)
         IN  IF normalizedUrl = "" THEN itemsOfRun(source, Tail(items))
             ELSE <<[title |-> trim(item.title), publishedAt |-> item.publishedAt,
                     url |-> normalizedUrl, summary |-> item.summary,
                     rawText |-> item.rawText, source |-> source,
                     provenanceLinks |-> SelectSeq(<<source.url, normalizedUrl>>,
                                                   LAMBDA v : v # "")]>>
                  \o itemsOfRun(source, Tail(items))

\* crawlSources in full.  `sites` pairs every requested source with what the
\* network does for it; sources other than social searches are crawled first.
crawlSourcesOver(sites, bearerToken) ==
    LET isTwitter(site) == site.source.kind = "twitter_search"
        ordered == SelectSeq(sites, LAMBDA site : ~isTwitter(site))
                       \o SelectSeq(sites, isTwitter)
        sourceRuns == [i \in 1..Len(ordered) |->
                          crawlSource(ordered[i].source, ordered[i].net, bearerToken)]
        allItems == Flatten([i \in 1..Len(ordered) |->
                                itemsOfRun(ordered[i].source, sourceRuns[i].items)])
    IN  [threw |-> \E i \in 1..Len(ordered) : sourceRuns[i].threw,
         items |-> dedupeCrawledItems(allItems),
         sourceResults |-> [i \in 1..Len(ordered) |->
                               [sourceId |-> sourceRuns[i].sourceId,
                                itemCount |-> sourceRuns[i].itemCount,
                                error |-> sourceRuns[i].error]]]

\* a SourceRecord, as far as the crawler reads it
SiteSource(id, kind, url) == [id |-> id, name |-> id, kind |-> kind, url |-> url]

\* a CrawlInput as a parser returns it
Parsed(title, url, rawText) ==
    [title |-> title, publishedAt |-> Null, url |-> url, summary |-> title,
     rawText |-> rawText]

Answers(items) ==
    [does |-> "response", ok |-> TRUE, status |-> "200", statusText |-> "OK",
     items |-> items]

\* the sources a call can ask for, each with what the network does for it
SiteInputs ==
    {[source |-> SiteSource("feed", "rss", "https://example.gov/feed"),
      net |-> Answers(<<Parsed(" Rule 1", " https://example.gov/docs/1 ", "Rule 1. Text"),
                        Parsed("Rule 0", "", "Rule 0. No link")>>)],
     [source |-> SiteSource("good-page", "webpage", "https://example.gov/page"),
      net |-> Answers(<<Parsed("Good Page", "https://example.gov/page",
                               "Meta safety update")>>)],
     [source |-> SiteSource("dup-feed", "rss", "https://example.gov/atom"),
      net |-> Answers(<<Parsed("Rule 2", "docs/2", "Rule 2. First"),
                        Parsed("Rule 2 again", "docs/2", "Rule 2. Second")>>)],
     [source |-> SiteSource("mirror-feed", "rss", "https://example.gov/mirror"),
      net |-> Answers(<<Parsed("Rule 2 mirrored", "https://example.gov/Docs/2", "Rule 2. Mirror"),
                        Parsed("Rule 2 again", "https://example.gov/docs/2", "Rule 2. Second")>>)],
     [source |-> SiteSource("bad-page", "webpage", "https://example.gov/fail"),
      net |-> [does |-> "reject", isError |-> TRUE, message |-> "network down"]],
     [source |-> SiteSource("busy-feed", "rss", "https://example.gov/busy"),
      net |-> [does |-> "response", ok |-> FALSE, status |-> "503",
               statusText |-> "Service Unavailable", items |-> <<>>]],
     [source |-> SiteSource("slow-news", "news_search", "https://example.gov/slow"),
      net |-> [does |-> "abort"]],
     [source |-> SiteSource("odd-feed", "rss", "https://example.gov/odd"),
      net |-> [does |-> "reject", isError |-> FALSE, message |-> "boom"]],
     [source |-> SiteSource("pdf-archive", "pdf", "https://example.gov/archive"),
      net |-> Answers(<<Parsed("Archive", "https://example.gov/archive", "Old rules")>>)],
     [source |-> SiteSource("x-search", "twitter_search", "https://api.x.com/2/search"),
      net |-> Answers(<<Parsed("Post", "https://x.com/i/1", "Teen safety post")>>)]}

\* the requests: up to MaxSites different sources, in any order
CrawlRequests ==
    {sites \in UNION {[1..n -> SiteInputs] : n \in 1..MaxSites} :
        \A i, j \in 1..Len(sites) : sites[i] = sites[j] => i = j}

\* the store of Init, and one crawlSources call about to be made
InitCrawl ==
    /\ events = {}
    /\ statusChanges = <<>>
    /\ sources = {}
    /\ clock = 0
    /\ lastCall = NoCall
    /\ crawlRuns = <<>>
    /\ runs = <<>>
    /\ upstream = <<>>
    /\ probe \in {[op |-> "crawlSources", done |-> FALSE, sites |-> sites,
                   bearerToken |-> token,
                   output |-> [threw |-> FALSE, items |-> <<>>, sourceResults |-> <<>>]] :
                     sites \in CrawlRequests, token \in {"", "token"}}

CrawlSourcesCall ==
    /\ probe.op = "crawlSources"
    /\ ~probe.done
    /\ probe' = [probe EXCEPT !.done = TRUE,
                              !.output = crawlSourcesOver(probe.sites, probe.bearerToken)]
    /\ UNCHANGED <<events, statusChanges, sources, clock, lastCall, crawlRuns, runs, upstream>>

NextCrawl == CrawlSourcesCall

SpecCrawl == InitCrawl /\ [][NextCrawl]_vars

\* a crawlSources call has been made and has ended
crawled == probe.op = "crawlSources" /\ probe.done

\* the source cannot be crawled: its kind is unsupported, it is a social search
\* without the credential, or its fetch does not end in a 2xx answer
fails(site, bearerToken) ==
    \/ site.source.kind \notin {"webpage", "rss", "news_search", "twitter_search"}
    \/ site.source.kind = "twitter_search" /\ bearerToken = ""
    \/ site.net.does # "response"
    \/ ~site.net.ok

\* C12: a crawlSources call does not throw and returns exactly one sourceResults
\* entry per requested source; a source that cannot be crawled gets the entry
\* {sourceId, itemCount 0, error: a message} and has no item in the result, every
\* other source gets an entry without error, and the items returned are those
\* the call returns when only the other sources are requested.
C12_SourceFailureIsolated ==
    crawled =>
        LET sites == probe.sites
            out == probe.output
            entriesOf(site) == {k \in 1..Len(out.sourceResults) :
                                   out.sourceResults[k].sourceId = site.source.id}
            working == SelectSeq(sites, LAMBDA site : ~fails(site, probe.bearerToken))
        IN  /\ ~out.threw
            /\ Len(out.sourceResults) = Len(sites)
            /\ \A i \in 1..Len(sites) :
                   /\ Cardinality(entriesOf(sites[i])) = 1
                   /\ \A k \in entriesOf(sites[i]) :
                          IF fails(sites[i], probe.bearerToken)
                          THEN /\ out.sourceResults[k].itemCount = 0
                               /\ out.sourceResults[k].error \notin {Null, ""}
                               /\ \A j \in 1..Len(out.items) :
                                      out.items[j].source.id # sites[i].source.id
                          ELSE /\ out.sourceResults[k].error = Null
                               /\ out.sourceResults[k].itemCount = Len(sites[i].net.items)
            /\ out.items = crawlSourcesOver(working, probe.bearerToken).items

\* C12 witness: of two requested sources the first could not be fetched, and the
\* items of the second were returned
C12_Witness ==
    /\ crawled
    /\ Len(probe.sites) = 2
    /\ probe.sites[1].net.does = "reject"
    /\ ~fails(probe.sites[2], probe.bearerToken)
    /\ probe.output.sourceResults[1].error = "network down"
    /\ Len(probe.output.items) > 0

\* --------------------------------------------------- classifier calls

\* classifications made one after another in one behaviour of SpecAnalyze
MaxAnalyses == 2

\* a complete, relevant answer of the service
BaseParsed ==
    [isRelevant |-> JBool(TRUE), jurisdiction |-> JStr(<<"California", " USA">>),
     stage |-> JStr("introduced"), ageBracket |-> JStr("13-15"),
     affectedMetaProducts |-> JList(<<JStr(" Instagram "), JNum(30), JStr("")>>),
     summary |-> JStr("California bill would require age verification for teen accounts on social apps."),
     businessImpact |-> JStr("Moderate product updates needed."),
     requiredSolutions |-> JList(<<JStr("Age assurance")>>),
     competitorResponses |-> JUndefined,
     impactScore |-> JNum(40), likelihoodScore |-> JNum(40),
     confidenceScore |-> JNum(40), chiliScore |-> JNum(30)]

\* raw stage values: enum values in several spellings, texts only a fallback
\* pattern matches, texts nothing matches, and a value that is no string
RawStageInputs ==
    {JStr("passed"), JStr("PROPOSED"), JStr("Committee Review"), JStr("effective"),
     JStr("withdrawn"), JStr("Effective soon"), JStr("draft bill in committee"),
     JStr("proposed amendment"), JStr("Amended act"), JStr("vetoed"),
     JStr("pending"), JStr("Signed into law"), JStr(""), JNum(30), JUndefined}

\* raw score values: integers, fractions, out of range, numeric and other
\* strings, and values that are no number
RawScoreInputs ==
    {JNum(30), JNum(10), JNum(50), JNum(46), JNum(25), JNum(24), JNum(4), JNum(5),
     JNum(0), JNum(-15), JNum(54), JNum(55), JNum(70), JNum(1000),
     JStr("4"), JStr("2.5"), JStr("11"), JStr("high"), JStr(""),
     JUndefined, JNull, JBool(TRUE), JList(<<>>)}

ParsedInputs ==
    {[BaseParsed EXCEPT !.stage = raw] : raw \in RawStageInputs}
    \cup {[BaseParsed EXCEPT !.impactScore = raw, !.chiliScore = raw] : raw \in RawScoreInputs}
    \cup {[BaseParsed EXCEPT !.likelihoodScore = raw, !.confidenceScore = raw] :
             raw \in {JNum(46), JStr("high"), JNum(-15)}}
    \cup {[BaseParsed EXCEPT !.isRelevant = JStr("false")],
          [BaseParsed EXCEPT !.isRelevant = JUndefined],
          [BaseParsed EXCEPT !.jurisdiction = JStr(<<"  ">>)],
          [BaseParsed EXCEPT !.ageBracket = JStr("16-18"), !.summary = JNull]}

\* the ways the classification request fails
FailingServices ==
    {Unauthorized,
     [Unauthorized EXCEPT !.status = "500", !.statusText = "Internal Server Error"],
     [does |-> "reject", message |-> "This operation was aborted"],
     [Answered(NoParsed) EXCEPT !.bodyIsJson = FALSE],
     [Answered(NoParsed) EXCEPT !.text = ""],
     Answered(NoParsed)}

ServiceInputs == FailingServices \cup {Answered(parsed) : parsed \in ParsedInputs}

\* what the service does for the classifications that follow the first
FollowUpServices ==
    {Unauthorized, Answered(BaseParsed),
     Answered([BaseParsed EXCEPT !.stage = JStr("Effective soon")]),
     Answered([BaseParsed EXCEPT !.stage = JStr("pending"), !.impactScore = JNum(46)])}

\* a crawled item whose own text speaks of minors and of a bill, and one whose
\* text does neither
AnalyzeItems ==
    {[CrawlItem(SourceCA, "Bill A", "https://leginfo.legislature.ca.gov/a",
                "teen accounts bill, hearing in committee")
         EXCEPT !.summary = "senate committee hears the teen online safety bill on age verification."],
     CrawlItem(SourceWire, "Budget", "https://news.example.com/budget", "state budget news")}

NoAnalysis == [threw |-> FALSE, value |-> analyzePayloadDefaults(""), minimaxAuthFailed |-> FALSE]

\* an empty store, a build of the classifier, and a first classification to make
InitAnalyze ==
    /\ events = {}
    /\ statusChanges = <<>>
    /\ sources = {}
    /\ clock = 0
    /\ lastCall = NoCall
    /\ crawlRuns = <<>>
    /\ runs = <<>>
    /\ upstream = <<>>
    /\ probe \in {[op |-> "analyze", phase |-> "call", n |-> 1, item |-> item,
                   apiKey |-> apiKey, service |-> service, build |-> build,
                   minimaxAuthFailed |-> FALSE, output |-> NoAnalysis] :
                     item \in AnalyzeItems, apiKey \in {"", "key"},
                     service \in ServiceInputs, build \in {"src", "dist"}}

\* analyzeCrawledItem(item) settles
AnalyzeCall ==
    /\ probe.op = "analyze"
    /\ probe.phase = "call"
    /\ probe' = [probe EXCEPT
                    !.phase = "store",
                    !.output = analyzeCrawledItem(probe.item, probe.apiKey, probe.service,
                                                  probe.build, probe.minimaxAuthFailed)]
    /\ UNCHANGED <<events, statusChanges, sources, clock, lastCall, crawlRuns, runs, upstream>>

\* the pass's write step for the settled classification: a rejected promise is
\* skipped, a result goes through upsertAnalysedItem
StoreAnalysed ==
    /\ probe.op = "analyze"
    /\ probe.phase = "store"
    /\ LET now == clock + 1
           db == [events |-> events, statusChanges |-> statusChanges, sources |-> sources]
           out == upsertAnalysedItem(db, probe.item, probe.output.value, now)
       IN  IF probe.output.threw
           THEN UNCHANGED <<events, statusChanges, sources, clock>>
           ELSE /\ events' = out.events
                /\ statusChanges' = out.statusChanges
                /\ sources' = out.sources
                /\ clock' = now
    /\ probe' = [probe EXCEPT !.phase = "done"]
    /\ UNCHANGED <<lastCall, crawlRuns, runs, upstream>>

\* the next classification of the same process: same build and credential, the
\* module's minimaxAuthFailed as the last call left it
NextAnalysis ==
    /\ probe.op = "analyze"
    /\ probe.phase = "done"
    /\ probe.n < MaxAnalyses
    /\ \E item \in AnalyzeItems, service \in FollowUpServices :
           probe' = [probe EXCEPT !.phase = "call", !.n = @ + 1, !.item = item,
                                  !.service = service,
                                  !.minimaxAuthFailed = probe.output.minimaxAuthFailed,
                                  !.output = NoAnalysis]
    /\ UNCHANGED <<events, statusChanges, sources, clock, lastCall, crawlRuns, runs, upstream>>


\* ------------------------------------------------ claims on the classifier

\* a classification has settled
analysed == probe.op = "analyze" /\ probe.phase # "call"

\* the request to the service does not yield a parsed answer
serviceFails(service) ==
    \/ service.does = "reject"
    \/ ~service.ok
    \/ ~service.bodyIsJson
    \/ service.text = ""
    \/ service.parsed = NoParsed

\* C13: analyzeCrawledItem never raises; without an API credential, or when the
\* request times out, is answered non-2xx, or yields no text or no JSON, it
\* returns the safe default: not relevant, stage proposed, age bracket both, all
\* four scores 1.
C13_AnalyzerNeverRaises ==
    analysed =>
        /\ ~probe.output.threw
        /\ (probe.apiKey = "" \/ serviceFails(probe.service)) =>
               /\ probe.output.value.isRelevant = FALSE
               /\ probe.output.value.stage = "proposed"
               /\ probe.output.value.ageBracket = "both"
               /\ probe.output.value.impactScore = 1
               /\ probe.output.value.likelihoodScore = 1
               /\ probe.output.value.confidenceScore = 1
               /\ probe.output.value.chiliScore = 1

\* the result was built from the service's parsed answer
fromParsed ==
    /\ analysed
    /\ probe.apiKey # ""
    /\ ~serviceFails(probe.service)
    /\ ~(probe.build = "dist" /\ probe.minimaxAuthFailed)

\* the raw value is a number or a numeric string; its value in tenths
isNumeric(raw) ==
    \/ raw.type = "number"
    \/ raw.type = "string" /\ raw.text \in {"4", "2.5", "11"}

tenthsOf(raw) ==
    CASE raw.type = "number" -> raw.tenths
      [] raw.text = "4" -> 40
      [] raw.text = "2.5" -> 25
      [] raw.text = "11" -> 110

\* what the claim allows for a raw score: 1 for a value that is no number, else
\* an integer nearest to the value, clamped to [1,5]
expectedScores(raw) ==
    IF ~isNumeric(raw) THEN {1}
    ELSE {IF n < 1 THEN 1 ELSE IF n > 5 THEN 5 ELSE n :
             n \in {m \in -20..110 : 10 * m - tenthsOf(raw) \in -5..5}}

scoreFields == {"impactScore", "likelihoodScore", "confidenceScore", "chiliScore"}

\* C16: each of the four scores of analyzeCrawledItem's result is an integer in
\* [1,5]; when the result is built from the service's answer, a raw score that is
\* not numeric becomes 1 and every other is rounded to the nearest integer and
\* then clamped to [1,5].
C16_ScoresNormalized ==
    (analysed /\ ~probe.output.threw) =>
        \A field \in scoreFields :
            /\ probe.output.value[field] \in 1..5
            /\ fromParsed =>
                   probe.output.value[field] \in expectedScores(probe.service.parsed[field])

\* C16 witness: a fractional score above the range and a score that is no number
\* in one answer
C16_Witness ==
    /\ fromParsed
    /\ probe.service.parsed.likelihoodScore = JNum(46)
    /\ probe.output.value.likelihoodScore = 5
    /\ probe.service.parsed.impactScore = JNum(40)
    /\ probe.output.value.impactScore = 4

\* -------------------------------------------- claims on a 401 during a pass

\* the entries of a run's crawl for which the classification service answered 401
unauthorizedAt(run) ==
    {k \in 1..Len(run.crawlResult.items) : run.crawlResult.items[k].serviceStatus = "401"}

\* C14: when the classification service answers HTTP 401 for an item during a
\* pass, the pass continues: the write step of that item adds one to
\* eventsIgnored and writes no event row, leaves sourcesFailed and sourceErrors
\* as the crawl left them, and the pass ends returned, not `failed`.
C14_Step ==
    \A r \in 1..Len(runs) :
        /\ (/\ runs[r].pc = "write"
            /\ runs'[r].i = runs[r].i + 1
            /\ runs'[r].i \in unauthorizedAt(runs[r]))
           => /\ runs'[r].eventsIgnored = runs[r].eventsIgnored + 1
              /\ events' = events
              /\ runs'[r].sourcesFailed = failedSources(runs[r])
              /\ Len(runs'[r].sourceErrors) = failedSources(runs[r])
              /\ runs'[r].pc = "write"
        /\ (/\ runs[r].pc = "write"
            /\ runs'[r].pc # "write"
            /\ unauthorizedAt(runs[r]) # {})
           => /\ runs'[r].pc = "returned"
              /\ runs'[r].summary.status # "failed"
              /\ runs'[r].summary.sourcesFailed = failedSources(runs[r])
              /\ crawlRuns'[runs[r].runId].status # "failed"

C14_UnauthorizedItemIgnored == [][C14_Step]_vars

\* --------------------------------------------------- the HTTP API's edits

\* a request body without fields
NoBody ==
    [title |-> JUndefined, summary |-> JUndefined, businessImpact |-> JUndefined,
     jurisdictionCountry |-> JUndefined, jurisdictionState |-> JUndefined,
     stage |-> JUndefined, ageBracket |-> JUndefined, isUnder16Applicable |-> JUndefined,
     impactScore |-> JUndefined, likelihoodScore |-> JUndefined,
     confidenceScore |-> JUndefined, chiliScore |-> JUndefined,
     effectiveDate |-> JUndefined, publishedDate |-> JUndefined,
     annotation |-> JUndefined, author |-> JUndefined]

\* Number.parseInt(String(value), 10); strings tabulated
parseInt10(value) ==
    CASE value.type = "number" ->
             [nan |-> FALSE,
              int |-> IF value.tenths >= 0 THEN value.tenths \div 10
                      ELSE -((-value.tenths) \div 10)]
      [] value.type = "string" /\ value.text = "3" -> [nan |-> FALSE, int |-> 3]
      [] value.type = "string" /\ value.text = "4abc" -> [nan |-> FALSE, int |-> 4]
      [] OTHER -> [nan |-> TRUE, int |-> 0]

\* parseSingleInt(value, min, max): undefined unless an integer in [min, max] is read
parseSingleInt(value, min, max) ==
    LET parsed == parseInt10(value)
    IN  IF value.type = "undefined" \/ parsed.nan \/ parsed.int < min \/ parsed.int > max
        THEN [defined |-> FALSE, int |-> 0]
        ELSE [defined |-> TRUE, int |-> parsed.int]

\* cleanText: entities decoded, tags stripped, whitespace collapsed, trimmed
cleanText(input) == trim(sanitizeText(input))

\* cleanSummary: null for a blank text
cleanSummary(input) == IF cleanText(input) = "" THEN Null ELSE cleanText(input)

isText(value) == value.type = "string"

\* the body fails the handler's validation: 400 before anything is written
patchInvalid(body) ==
    \/ isText(body.stage) /\ body.stage.text \notin allowedStages
    \/ isText(body.ageBracket) /\ body.ageBracket.text \notin allowedBrackets
    \/ \E field \in {"impactScore", "likelihoodScore", "confidenceScore", "chiliScore"} :
           /\ body[field].type # "undefined"
           /\ ~parseSingleInt(body[field], 1, 5).defined

\* the columns the body's fields put in updateClauses
patchColumns(body) ==
    {column \in {"title", "summary", "business_impact", "jurisdiction_country",
                 "jurisdiction_state", "stage", "age_bracket", "is_under16_applicable",
                 "impact_score", "likelihood_score", "confidence_score", "chili_score",
                 "effective_date", "published_date"} :
        CASE column = "title" -> isText(body.title) /\ trim(body.title.text) # ""
          [] column = "summary" -> isText(body.summary)
          [] column = "business_impact" ->
                 isText(body.businessImpact) /\ trim(body.businessImpact.text) # ""
          [] column = "jurisdiction_country" ->
                 isText(body.jurisdictionCountry) /\ trim(body.jurisdictionCountry.text) # ""
          [] column = "jurisdiction_state" ->
                 isText(body.jurisdictionState) \/ body.jurisdictionState.type = "null"
          [] column = "stage" -> isText(body.stage)
          [] column = "age_bracket" -> isText(body.ageBracket)
          [] column = "is_under16_applicable" -> body.isUnder16Applicable.type = "boolean"
          [] column = "impact_score" -> body.impactScore.type # "undefined"
          [] column = "likelihood_score" -> body.likelihoodScore.type # "undefined"
          [] column = "confidence_score" -> body.confidenceScore.type # "undefined"
          [] column = "chili_score" -> body.chiliScore.type # "undefined"
          [] column = "effective_date" ->
                 isText(body.effectiveDate) \/ body.effectiveDate.type = "null"
          [] column = "published_date" ->
                 isText(body.publishedDate) \/ body.publishedDate.type = "null"}

\* a date field of the body: the string, null for an empty one and for null
dateOrNull(value) == IF isText(value) /\ value.text # "" THEN value.text ELSE Null

\* the row after UPDATE regulation_events SET <updateClauses>, updated_at = now
patchedRow(row, body, now) ==
    LET columns == patchColumns(body)
    IN  [row EXCEPT
            !.title = IF "title" \in columns THEN cleanText(body.title.text) ELSE @,
            !.summary = IF "summary" \in columns THEN cleanSummary(body.summary.text) ELSE @,
            !.business_impact = IF "business_impact" \in columns
                                THEN cleanText(body.businessImpact.text) ELSE @,
            !.jurisdiction_country = IF "jurisdiction_country" \in columns
                                     THEN cleanText(body.jurisdictionCountry.text) ELSE @,
            !.jurisdiction_state = IF "jurisdiction_state" \in columns
                                   THEN (IF isText(body.jurisdictionState)
                                         THEN cleanText(body.jurisdictionState.text) ELSE "")
                                   ELSE @,
            !.stage = IF "stage" \in columns THEN body.stage.text ELSE @,
            !.age_bracket = IF "age_bracket" \in columns THEN body.ageBracket.text ELSE @,
            !.is_under16_applicable = IF "is_under16_applicable" \in columns
                                      THEN (IF body.isUnder16Applicable.val THEN 1 ELSE 0)
                                      ELSE @,
            !.impact_score = IF "impact_score" \in columns
                             THEN parseSingleInt(body.impactScore, 1, 5).int ELSE @,
            !.likelihood_score = IF "likelihood_score" \in columns
                                 THEN parseSingleInt(body.likelihoodScore, 1, 5).int ELSE @,
            !.confidence_score = IF "confidence_score" \in columns
                                 THEN parseSingleInt(body.confidenceScore, 1, 5).int ELSE @,
            !.chili_score = IF "chili_score" \in columns
                            THEN parseSingleInt(body.chiliScore, 1, 5).int ELSE @,
            !.effective_date = IF "effective_date" \in columns
                               THEN dateOrNull(body.effectiveDate) ELSE @,
            !.published_date = IF "published_date" \in columns
                               THEN dateOrNull(body.publishedDate) ELSE @,
            !.updated_at = now]

\* the UPDATE breaks the unique index idx_regulation_events_dedupe
updateViolatesConstraint(evts, existing, row) ==
    \E r \in evts \ {existing} :
        /\ r.jurisdiction_country = row.jurisdiction_country
        /\ r.jurisdiction_state = row.jurisdiction_state
        /\ r.source_url = row.source_url
        /\ r.title = row.title

\* PATCH /api/events/:id at time `now`: the response status and the tables
\* regulation_events, regulation_event_status_changes and event_annotations
\* after the request
patchEvent(db, id, body, now) ==
    LET found == {r \in db.events : r.id = id}
        existing == CHOOSE r \in found : TRUE
        annotationNote == IF isText(body.annotation) THEN trim(body.annotation.text) ELSE ""
        row == patchedRow(existing, body, now)
        unchanged == [events |-> db.events, statusChanges |-> db.statusChanges,
                      annotations |-> db.annotations]
        annotated ==
            IF annotationNote = "" THEN db.annotations
            ELSE Append(db.annotations,
                        [event_id |-> id, note |-> annotationNote,
                         author |-> IF isText(body.author) THEN trim(body.author.text)
                                    ELSE Null,
                         created_at |-> now])
    IN  IF found = {} THEN [status |-> 404] @@ unchanged
        ELSE IF patchInvalid(body) THEN [status |-> 400] @@ unchanged
        ELSE IF patchColumns(body) = {} /\ annotationNote = ""
        THEN [status |-> 400] @@ unchanged
        ELSE IF patchColumns(body) = {}
        THEN [status |-> 200, annotations |-> annotated] @@ unchanged
        ELSE IF updateViolatesConstraint(db.events, existing, row)
        THEN [status |-> 500] @@ unchanged
        ELSE [status |-> 200,
              annotations |-> annotated,
              events |-> (db.events \ {existing}) \cup {row},
              statusChanges |->
                  IF isText(body.stage) /\ body.stage.text # existing.stage
                  THEN Append(db.statusChanges,
                              [event_id |-> id, previous_stage |-> existing.stage,
                               new_stage |-> body.stage.text, changed_at |-> now])
                  ELSE db.statusChanges]

\* candidates of direct callers whose scores are arbitrary numbers: integers in
\* and out of range, fractions, NaN and Infinity
ApiEventInputs ==
    {BaseEvent,
     [BaseEvent EXCEPT !.stage = "passed", !.likelihoodScore = 7, !.confidenceScore = -3],
     [BaseEvent EXCEPT !.impactScore = Fraction + 46, !.chiliScore = NaN],
     [BaseEvent EXCEPT !.impactScore = Infinity, !.likelihoodScore = 0,
                       !.confidenceScore = Fraction + 5, !.chiliScore = 100],
     [BaseEvent EXCEPT !.title = "Bill B", !.chiliScore = Fraction + 25]}

\* request bodies: edits the handler accepts and edits it rejects
PatchBodies ==
    {NoBody,
     [NoBody EXCEPT !.stage = JStr("enacted")],
     [NoBody EXCEPT !.stage = JStr("introduced"), !.ageBracket = JStr("16-18")],
     [NoBody EXCEPT !.stage = JStr("draft")],
     [NoBody EXCEPT !.stage = JNum(30)],
     [NoBody EXCEPT !.ageBracket = JStr("teens"), !.impactScore = JNum(20)],
     [NoBody EXCEPT !.impactScore = JNum(20), !.chiliScore = JNum(46)],
     [NoBody EXCEPT !.likelihoodScore = JNum(70)],
     [NoBody EXCEPT !.stage = JStr("passed"), !.confidenceScore = JNum(5)],
     [NoBody EXCEPT !.confidenceScore = JStr("3"), !.likelihoodScore = JStr("4abc")],
     [NoBody EXCEPT !.impactScore = JStr("high")],
     [NoBody EXCEPT !.chiliScore = JNull],
     [NoBody EXCEPT !.title = JStr("Bill A"), !.isUnder16Applicable = JBool(FALSE)],
     [NoBody EXCEPT !.summary = JStr(""), !.effectiveDate = JStr("2026-07-01"),
                    !.publishedDate = JNull],
     [NoBody EXCEPT !.annotation = JStr("checked"), !.author = JStr("analyst")],
     [NoBody EXCEPT !.impactScore = JNum(59), !.annotation = JStr("checked")],
     [NoBody EXCEPT !.stage = JStr("draft"), !.annotation = JStr("checked")]}

\* the ids a client asks for: those of the stored rows and one that is not stored
PatchIds == {r.id : r \in events} \cup {"no-such-event"}

\* table event_annotations, in insertion order: kept with the last request
annotations == IF probe.op = "patch" THEN probe.annotations ELSE <<>>

\* one PATCH /api/events/:id request
PatchEvent(id, body) ==
    /\ clock < MaxCalls
    /\ LET now == clock + 1
           out == patchEvent([events |-> events, statusChanges |-> statusChanges,
                              annotations |-> annotations],
                             id, body, now)
       IN  /\ events' = out.events
           /\ statusChanges' = out.statusChanges
           /\ clock' = IF out.status = 200 THEN now ELSE clock
           /\ probe' = [op |-> "patch", status |-> out.status,
                        id |-> IF out.status = 200 THEN id ELSE "",
                        body |-> IF out.status = 200 THEN body ELSE NoBody,
                        at |-> clock', annotations |-> out.annotations]
    /\ UNCHANGED <<sources, lastCall, crawlRuns, runs, upstream>>

NextApi ==
    \/ \E event \in ApiEventInputs : UpsertCall(event)
    \/ \E id \in PatchIds, body \in PatchBodies : PatchEvent(id, body)

\* the store behind the HTTP API: direct upserts and PATCH edits from an empty schema
SpecApi == Init /\ [][NextApi]_vars

\* the edits of a stored row's stage a client may send
StageEdits == {body \in PatchBodies : body.stage # JUndefined}

NextAnalyze ==
    \/ AnalyzeCall
    \/ StoreAnalysed
    \/ NextAnalysis
    \/ \E id \in PatchIds, body \in StageEdits : PatchEvent(id, body)

\* classifications written to the store one after another, and stage edits through
\* the HTTP API
SpecAnalyze == InitAnalyze /\ [][NextAnalyze]_vars

\* ---------------------------------------------------- claims on the stage

\* the nine stages of the specification
nineStages ==
    {"proposed", "introduced", "committee_review", "passed", "enacted", "effective",
     "amended", "withdrawn", "rejected"}

\* raw stages that equal no enum value and hold none of the fallback patterns' words
UnmatchedStages == {"pending", "Signed into law", ""}

\* C17: every stage the classifier's normalization produces, and every stage
\* stored in an event row or a StatusChange row, is one of the nine enumerated
\* values; a raw stage that is an enum value is kept even where a fallback pattern
\* matches it, and a raw stage that equals no enum value and matches no fallback
\* pattern becomes `proposed`.
C17_StageAlwaysEnumerated ==
    /\ (analysed /\ ~probe.output.threw) => probe.output.value.stage \in nineStages
    /\ \A r \in events : r.stage \in nineStages
    /\ \A k \in 1..Len(statusChanges) :
           /\ statusChanges[k].previous_stage \in nineStages
           /\ statusChanges[k].new_stage \in nineStages
    /\ fromParsed =>
           LET raw == probe.service.parsed.stage
           IN  /\ raw.type # "string" => probe.output.value.stage = "proposed"
               /\ (raw.type = "string" /\ raw.text \in nineStages) =>
                      probe.output.value.stage = raw.text
               /\ (raw.type = "string" /\ raw.text \in UnmatchedStages) =>
                      probe.output.value.stage = "proposed"

\* C17 witness: the raw stage `effective`, which the pattern of `enacted` matches,
\* was stored as `effective`; a later answer `Effective soon` moved the row to
\* `enacted`, recorded in a StatusChange row
C17_Witness ==
    /\ fromParsed
    /\ probe.phase = "done"
    /\ probe.service.parsed.stage = JStr("Effective soon")
    /\ Len(statusChanges) = 1
    /\ statusChanges[1].previous_stage = "effective"
    /\ statusChanges[1].new_stage = "enacted"
    /\ \E r \in events : r.stage = "enacted"

\* ------------------------------------------------------ claims on the store

\* the step is one call of upsertRegulationEvent, made on the store as it stands
upsertStep == lastCall' # lastCall /\ lastCall'.eventsBefore = events /\ probe' = probe

\* C15: in every reachable state of the store, after upsertRegulationEvent calls
\* with arbitrary numeric scores and PATCH edits, each stored event's impact,
\* likelihood, confidence and chili score is an integer in [1,5].
C15_StoredScoresInRange ==
    \A r \in events :
        /\ r.impact_score \in 1..5
        /\ r.likelihood_score \in 1..5
        /\ r.confidence_score \in 1..5
        /\ r.chili_score \in 1..5

\* C15 witness: a row created from a fraction and NaN, overwritten from scores
\* out of range, then edited by a PATCH whose chili score is a fraction
C15_Witness ==
    /\ probe.op = "patch"
    /\ probe.status = 200
    /\ probe.body.chiliScore = JNum(46)
    /\ lastCall.event.likelihoodScore = 7
    /\ lastCall.event.confidenceScore = -3
    /\ \E e \in lastCall.eventsBefore : e.impact_score = 1 /\ e.chili_score = 1
    /\ \E r \in events : /\ r.id = probe.id
                         /\ r.likelihood_score = 5
                         /\ r.confidence_score = 1
                         /\ r.impact_score = 2
                         /\ r.chili_score = 4

\* the stage stored for the row the last upsert addressed, before and after it
stageBefore == {r.stage : r \in {e \in events : e.id = lastCall'.result.id}}
stageAfter == {r.stage : r \in {e \in events' : e.id = lastCall'.result.id}}

\* C18: StatusChange rows are append-only: every step keeps the rows there are,
\* in place and unchanged; a row is appended only by an upsert that changes the
\* stored stage, and upserts returning created, unchanged or updated append none.
C18_Step ==
    /\ Len(statusChanges') >= Len(statusChanges)
    /\ SubSeq(statusChanges', 1, Len(statusChanges)) = statusChanges
    /\ Len(statusChanges') > Len(statusChanges) =>
           /\ upsertStep
           /\ lastCall'.result.status = "status_changed"
           /\ stageBefore # stageAfter
           /\ Len(statusChanges') = Len(statusChanges) + 1
    /\ (upsertStep /\ lastCall'.result.status \in {"created", "unchanged", "updated"}) =>
           statusChanges' = statusChanges

C18_StatusChangesAppendOnly == [][C18_Step]_vars

\* C19: event rows and StatusChange rows are written only by upsertRegulationEvent:
\* a step that inserts or updates a row of either table is a call of it.
C19_Step ==
    (events' # events \/ statusChanges' # statusChanges) => upsertStep

C19_OnlyUpsertWrites == [][C19_Step]_vars

\* ------------------------------------------------- the pass's batch loop

\* crawled items of one pass
MaxItems == 12

\* Number(process.env.ANALYSIS_CONCURRENCY || 12), tabulated; NaN for a text
\* that is no number
concurrencyOf(env) ==
    CASE env = "" -> 12
      [] env = "0" -> 0
      [] env = "4" -> 4
      [] env = "11" -> 11
      [] OTHER -> NaN

\* BATCH_SIZE = Math.max(10, ...); Math.max is NaN when an argument is
batchSize(env) ==
    LET number == concurrencyOf(env)
    IN  IF number = NaN THEN NaN ELSE IF number < 10 THEN 10 ELSE number

\* a plausible slip: the slice's end taken as inclusive
batchSlice_inclusive(i, width, n) ==
    IF width = NaN THEN {}
    ELSE {k \in 1..n : i < k /\ k <= i + width + 1}

\* crawlResult.items.slice(i, i + BATCH_SIZE), as 1-based item numbers; a NaN end
\* gives the empty slice
batchSlice(i, width, n) ==
    IF width = NaN THEN {}
    ELSE {k \in 1..n : i < k /\ k <= i + width}

\* the k-th smallest item number of a batch
RECURSIVE nth(_, _)
nth(batch, k) ==
    LET least == CHOOSE a \in batch : \A b \in batch : a <= b
    IN  IF k = 1 THEN least ELSE nth(batch \ {least}, k - 1)

\* a pass of the compiled build, MINIMAX_API_KEY set, has crawled n items;
\* `skipped` are those the write loop passes over (rejected promise or repeated
\* deduplication key), `unauthorized` those for which the classification
\* service answers HTTP 401; no authentication failure is remembered yet
InitBatch ==
    /\ events = {}
    /\ statusChanges = <<>>
    /\ sources = {}
    /\ clock = 0
    /\ lastCall = NoCall
    /\ crawlRuns = <<>>
    /\ runs = <<>>
    /\ upstream = <<>>
    /\ probe \in {[op |-> "batch", n |-> n, width |-> batchSize(env), skipped |-> skipped,
                   i |-> 0, pc |-> "loop", batch |-> {}, inFlight |-> {}, settled |-> {},
                   j |-> 0, upserting |-> {}, written |-> <<>>,
                   unauthorized |-> unauthorized, minimaxAuthFailed |-> FALSE,
                   requested |-> {}] :
                     n \in 0..MaxItems, env \in {"", "0", "4", "11", "many"},
                     skipped \in {{}, {2}}, unauthorized \in {{}, {3}, {11}}}

\* the head of the for loop: the next batch is sliced and batch.map starts the
\* classification of each of its items, every call running up to its first
\* await: past the guards, its request is sent; the loop ends when i is no
\* index (NaN after a NaN step) or past the last item
StartBatch ==
    /\ probe.op = "batch"
    /\ probe.pc = "loop"
    /\ LET batch == batchSlice(probe.i, probe.width, probe.n)
       IN  IF probe.i = NaN \/ probe.i >= probe.n
           THEN probe' = [probe EXCEPT !.pc = "done"]
           ELSE probe' = [probe EXCEPT !.batch = batch, !.inFlight = batch, !.j = 0,
                                       !.pc = IF batch = {} THEN "write" ELSE "classify",
                                       !.requested =
                                           IF issuesRequest("key", probe.minimaxAuthFailed)
                                           THEN @ \cup batch ELSE @]
    /\ UNCHANGED <<events, statusChanges, sources, clock, lastCall, crawlRuns, runs, upstream>>

\* one classification settles: a call that was answered 401 throws, the catch
\* remembers the authentication failure and the promise resolves with the
\* heuristic result; Promise.allSettled resolves with the last
Settle(item) ==
    /\ probe.op = "batch"
    /\ probe.pc = "classify"
    /\ item \in probe.inFlight
    /\ probe' = [probe EXCEPT !.inFlight = @ \ {item}, !.settled = @ \cup {item},
                              !.pc = IF probe.inFlight = {item} THEN "write" ELSE "classify",
                              !.minimaxAuthFailed =
                                  \/ @
                                  \/ /\ item \in probe.requested \cap probe.unauthorized
                                     /\ isAuthFailure(callService(Unauthorized).message)]
    /\ UNCHANGED <<events, statusChanges, sources, clock, lastCall, crawlRuns, runs, upstream>>

\* results[j] of the write loop: passed over, or its upsert started and awaited
StartUpsert ==
    /\ probe.op = "batch"
    /\ probe.pc = "write"
    /\ probe.upserting = {}
    /\ probe.j < Cardinality(probe.batch)
    /\ LET item == nth(probe.batch, probe.j + 1)
       IN  probe' = [probe EXCEPT !.j = @ + 1,
                                  !.upserting = IF item \in probe.skipped THEN {} ELSE {item}]
    /\ UNCHANGED <<events, statusChanges, sources, clock, lastCall, crawlRuns, runs, upstream>>

\* the awaited upsertAnalysedItem returns
EndUpsert ==
    /\ probe.op = "batch"
    /\ probe.pc = "write"
    /\ probe.upserting # {}
    /\ probe' = [probe EXCEPT !.upserting = {},
                              !.written = Append(@, CHOOSE item \in probe.upserting : TRUE)]
    /\ UNCHANGED <<events, statusChanges, sources, clock, lastCall, crawlRuns, runs, upstream>>

\* the write loop is over: i += BATCH_SIZE
EndBatch ==
    /\ probe.op = "batch"
    /\ probe.pc = "write"
    /\ probe.upserting = {}
    /\ probe.j = Cardinality(probe.batch)
    /\ probe' = [probe EXCEPT !.pc = "loop",
                              !.i = IF probe.width = NaN THEN NaN ELSE @ + probe.width]
    /\ UNCHANGED <<events, statusChanges, sources, clock, lastCall, crawlRuns, runs, upstream>>

NextBatch ==
    \/ StartBatch
    \/ \E item \in 1..MaxItems : Settle(item)
    \/ StartUpsert
    \/ EndUpsert
    \/ EndBatch

SpecBatch == InitBatch /\ [][NextBatch]_vars

\* ------------------------------------------------ claims on the batch loop

\* the items the write loop has dealt with: upserted or passed over
handled ==
    {probe.written[k] : k \in 1..Len(probe.written)}
    \cup {item \in probe.skipped : item \in probe.settled /\ item \notin probe.batch}
    \cup {item \in probe.batch \cap probe.skipped :
             \E k \in 1..probe.j : nth(probe.batch, k) = item}

\* C20: items are classified in batches of a fixed width: at most that many
\* classification calls are in flight at once; an upsert starts only when every
\* classification of its batch has settled; upserts run one at a time, in item
\* order; and a classification starts only when every earlier item's upsert has
\* finished.
C20_State ==
    probe.op = "batch" =>
        /\ probe.width # NaN => Cardinality(probe.inFlight) <= probe.width
        /\ Cardinality(probe.upserting) <= 1
        /\ probe.upserting # {} => probe.inFlight = {} /\ probe.batch \subseteq probe.settled
        /\ \A a, b \in 1..Len(probe.written) : a < b => probe.written[a] < probe.written[b]
        /\ \A item \in probe.upserting :
               \A k \in 1..Len(probe.written) : probe.written[k] < item

C20_Step ==
    (probe.op = "batch" /\ probe'.inFlight \ probe.inFlight # {}) =>
        /\ probe.upserting = {}
        /\ probe.inFlight = {}
        /\ \A item \in probe'.inFlight \ probe.inFlight :
               \A earlier \in 1..(item - 1) :
                   earlier \in probe'.inFlight \/ earlier \in handled

C20_BatchesSequential == []C20_State /\ [][C20_Step]_vars

\* C20 witness: with width 10 and twelve items, the second batch is in flight
\* after the nine upserts of the first
C20_Witness ==
    /\ probe.op = "batch"
    /\ probe.width = 10
    /\ probe.n = 12
    /\ probe.skipped = {2}
    /\ probe.inFlight = {12}
    /\ probe.settled = 1..11
    /\ Len(probe.written) = 9

\* ------------------------------------- completion order within a batch

\* classification calls of one batch
MaxBatch == 3

\* a crawled item with the answer the classification service has for it
SettleCA_A == [item |-> ItemCA_A.item, service |-> Answered(BaseParsed)]

SettleWire_A ==
    [item |-> ItemWire_A.item,
     service |-> Answered([BaseParsed EXCEPT
                              !.jurisdiction = JStr(<<"USA", " California">>),
                              !.stage = JStr("passed"),
                              !.summary = JStr("Senate passed the bill requiring age verification for teen accounts on social apps.")])]

\* the regulator's page crawled a second time, the service now reading another stage
SettleCA_A_Again ==
    [item |-> ItemCA_A.item,
     service |-> Answered([BaseParsed EXCEPT !.stage = JStr("enacted")])]

\* the wire's report under a second URL: same title, same text, same answer
SettleWire_A_Mirror == [item |-> ItemWire_Acase.item, service |-> SettleWire_A.service]

SettleWire_Unauthorized == [item |-> ItemWire_Unauthorized.item, service |-> Unauthorized]

SettlePool ==
    {SettleCA_A, SettleWire_A, SettleCA_A_Again, SettleWire_A_Mirror, SettleWire_Unauthorized}

\* the batches: up to MaxBatch distinct calls, in every item order
SettleBatches ==
    {batch \in UNION {[1..n -> SettlePool] : n \in 0..MaxBatch} :
        \A a, b \in DOMAIN batch : a # b => batch[a] # batch[b]}

\* a plausible slip: results collected as the calls complete
resultSlot_completionOrder(idx, order) == Len(order) + 1

\* Promise.allSettled(batch.map(...)): the result of the idx-th call is
\* results[idx], whatever calls completed before it
resultSlot(idx, order) == idx

\* what the idx-th call of the batch settles with: { item, analysis } or a
\* rejection; the guard on minimaxAuthFailed was evaluated when batch.map
\* started the call, before any call of the batch had completed
settledEntry(call, flagAtStart) ==
    LET out == analyzeCrawledItem(call.item, "key", call.service, "dist", flagAtStart)
    IN  [item |-> call.item, analysis |-> [rejected |-> out.threw] @@ out.value,
         serviceStatus |-> call.service.status,
         minimaxAuthFailed |-> out.minimaxAuthFailed]

\* a slot of results that no call has filled yet
NoSettled == [status |-> "pending"]

\* a pass whose crawl returned one batch of items (no source results), the
\* classification of each item started and none completed
InitSettle ==
    /\ events = {}
    /\ statusChanges = <<>>
    /\ sources = {}
    /\ clock = 1
    /\ lastCall = NoCall
    /\ crawlRuns = createCrawlRun(<<>>, 1)
    /\ runs = <<[newRun(1, 1) EXCEPT !.pc = "classify"]>>
    /\ upstream = <<>>
    /\ probe \in {[op |-> "settle", batch |-> batch, flagAtStart |-> flag,
                   minimaxAuthFailed |-> flag, pending |-> DOMAIN batch, order |-> <<>>,
                   results |-> [k \in DOMAIN batch |-> NoSettled]] :
                     batch \in SettleBatches, flag \in BOOLEAN}

\* the idx-th classification of the batch completes; with the last one
\* Promise.allSettled resolves and the write loop starts
SettleCall(idx) ==
    /\ probe.op = "settle"
    /\ runs[1].pc = "classify"
    /\ idx \in probe.pending
    /\ LET entry == settledEntry(probe.batch[idx], probe.flagAtStart)
           results == [probe.results EXCEPT ![resultSlot(idx, probe.order)] = entry]
       IN  /\ probe' = [probe EXCEPT !.pending = @ \ {idx}, !.order = Append(@, idx),
                                     !.results = results,
                                     !.minimaxAuthFailed = @ \/ entry.minimaxAuthFailed]
           /\ runs' = IF probe.pending = {idx}
                      THEN [runs EXCEPT ![1] = [@ EXCEPT !.pc = "write",
                                                         !.crawlResult.items = results]]
                      ELSE runs
    /\ UNCHANGED <<events, statusChanges, sources, clock, lastCall, crawlRuns, upstream>>

\* an empty batch: Promise.allSettled([]) resolves at once
SettleNone ==
    /\ probe.op = "settle"
    /\ runs[1].pc = "classify"
    /\ probe.pending = {}
    /\ runs' = [runs EXCEPT ![1] = [@ EXCEPT !.pc = "write"]]
    /\ UNCHANGED <<events, statusChanges, sources, clock, lastCall, crawlRuns, upstream, probe>>

NextSettle ==
    \/ \E idx \in 1..MaxBatch : SettleCall(idx)
    \/ SettleNone
    \/ ProcessItem(1)
    \/ Finish(1)

SpecSettle == InitSettle /\ [][NextSettle]_vars

\* ---------------------------------------- claims on the completion order

\* the write loop run to its end from the locals `run` and the store `db`
RECURSIVE writeAll(_, _, _)
writeAll(run, db, now) ==
    IF run.i >= Len(run.crawlResult.items) THEN [run |-> run, db |-> db]
    ELSE LET step == writeLoopStep(run, db, now + 1)
         IN  writeAll(step.run, step.db, IF step.wrote THEN now + 1 ELSE now)

\* the outcome of the pass when the calls of the batch complete in item order
inItemOrder(batch, flag) ==
    LET run == [newRun(1, 1) EXCEPT
                   !.eventsAtStart = {}, !.changesAtStart = <<>>,
                   !.crawlResult.items = [k \in DOMAIN batch |-> settledEntry(batch[k], flag)]]
    IN  writeAll(run, [events |-> {}, statusChanges |-> <<>>, sources |-> {}], 1)

\* C21: the outcome of a pass does not depend on the order in which the
\* classification calls of a batch complete: whatever the order, the event rows,
\* the StatusChange rows and the counters of the CrawlSummary are those of the
\* pass whose calls complete in item order.
C21_CompletionOrderIrrelevant ==
    (probe.op = "settle" /\ runs[1].pc = "returned") =>
        LET expected == inItemOrder(probe.batch, probe.flagAtStart)
        IN  /\ events = expected.db.events
            /\ statusChanges = expected.db.statusChanges
            /\ sources = expected.db.sources
            /\ runValues(runs[1], "", 0) = runValues(expected.run, "", 0)
            /\ runs[1].summary.itemsDiscovered = Len(probe.batch)

\* C21 witness: the wire's report was classified before the regulator's page,
\* and the pass still created the event from the regulator's page and then
\* recorded the stage change
C21_Witness ==
    /\ probe.op = "settle"
    /\ runs[1].pc = "returned"
    /\ probe.batch = <<SettleCA_A, SettleWire_A>>
    /\ probe.order = <<2, 1>>
    /\ runs[1].summary.eventsCreated = 1
    /\ runs[1].summary.eventsStatusChanged = 1
    /\ Len(statusChanges) = 1

\* ---------------------------------------- the network calls of one pass

\* classification calls of the pass (one batch)
MaxClassify == 2

\* the kinds of the sources a pass can be asked to crawl, in catalog order
ScheduleCatalog == <<"rss", "twitter_search", "webpage", "twitter_search", "pdf">>

\* the sources of a pass: those of the catalog whose position is in `keep`
RECURSIVE selectKinds(_, _)
selectKinds(k, keep) ==
    IF k > Len(ScheduleCatalog) THEN <<>>
    ELSE (IF k \in keep THEN <<ScheduleCatalog[k]>> ELSE <<>>) \o selectKinds(k + 1, keep)

\* the positions, within `kinds`, of the social searches / of the other sources
twitterSources(kinds) == {k \in DOMAIN kinds : kinds[k] = "twitter_search"}

nonTwitterSources(kinds) == {k \in DOMAIN kinds : kinds[k] # "twitter_search"}

\* a plausible slip: the next social search called without the delay
afterTwitterCall_noDelay(i, n) == IF i < n - 1 THEN "twitter" ELSE "return"

\* the end of the i-th iteration of the social-search loop:
\* sleep(TWITTER_DELAY_MS) unless it was the last
afterTwitterCall(i, n) == IF i < n - 1 THEN "sleep" ELSE "return"

\* the position of the i-th (0-based) social search of the pass
twitterAt(kinds, i) == nth(twitterSources(kinds), i + 1)

\* a remote endpoint: it answers, it accepts the request and never sends a
\* response ("silent"), or it sends the response head and never the body ("stalls")
Endpoints == {"responds", "silent", "stalls"}

\* crawlSources has been called: nothing started yet.  At most one endpoint of
\* the pass is out of order.
InitSchedule ==
    /\ events = {}
    /\ statusChanges = <<>>
    /\ sources = {}
    /\ clock = 0
    /\ lastCall = NoCall
    /\ crawlRuns = <<>>
    /\ runs = <<>>
    /\ upstream = <<>>
    /\ probe \in {[op |-> "schedule", pc |-> "start", kinds |-> kinds,
                   bearerToken |-> token, endpoint |-> endpoint, service |-> service,
                   calls |-> [k \in DOMAIN kinds |-> "idle"], i |-> 0,
                   log |-> <<>>, classify |-> [c \in 1..items |-> "idle"]] :
                     kinds \in {selectKinds(1, keep) : keep \in SUBSET DOMAIN ScheduleCatalog},
                     token \in {"", "token"},
                     endpoint \in UNION {[1..n -> Endpoints] : n \in 0..Len(ScheduleCatalog)},
                     service \in Endpoints, items \in 0..MaxClassify}
    /\ DOMAIN probe.endpoint = DOMAIN probe.kinds
    /\ Cardinality({k \in DOMAIN probe.kinds : probe.endpoint[k] # "responds"})
           + (IF probe.service # "responds" THEN 1 ELSE 0) <= 1

\* the calls that are on the network
onNetwork(calls) == {k \in DOMAIN calls : calls[k] \in {"head", "body"}}

\* nonTwitterSources.map(crawlSource): crawlSource runs for every such source up
\* to its first await; an unsupported kind returns at once, the others have
\* their timer armed and their fetch started
StartFetches ==
    /\ probe.op = "schedule"
    /\ probe.pc = "start"
    /\ LET started == {k \in nonTwitterSources(probe.kinds) : isAllowedKind(probe.kinds[k])}
       IN  probe' = [probe EXCEPT
                        !.pc = "fetch",
                        !.calls = [k \in DOMAIN probe.kinds |->
                                      IF k \in started THEN "head"
                                      ELSE IF k \in nonTwitterSources(probe.kinds)
                                      THEN "failed" ELSE "idle"],
                        !.log = @ \o [k \in 1..Cardinality(started) |->
                                         <<"start", nth(started, k)>>]]
    /\ UNCHANGED <<events, statusChanges, sources, clock, lastCall, crawlRuns, runs, upstream>>

\* the response head of a fetch arrives.  fetchWithTimeout: a non-2xx status
\* throws, otherwise `return response.text()` leaves the try block and the
\* finally clears the timer while the body is still being read.
\* crawlTwitterRecentSearch: the body is awaited next.
HeadArrives(k, ok) ==
    /\ probe.op = "schedule"
    /\ k \in DOMAIN probe.kinds
    /\ probe.calls[k] = "head"
    /\ probe.endpoint[k] \in {"responds", "stalls"}
    /\ IF ~ok /\ probe.kinds[k] # "twitter_search"
       THEN probe' = [probe EXCEPT !.calls[k] = "failed", !.log = Append(@, <<"end", k>>)]
       ELSE probe' = [probe EXCEPT !.calls[k] = "body", !.log = Append(@, <<"head", k>>)]
    /\ UNCHANGED <<events, statusChanges, sources, clock, lastCall, crawlRuns, runs, upstream>>

\* the body of a response has been read: crawlSource returns its result, or
\* the error it caught (non-2xx status, unparseable payload)
BodyArrives(k, ok) ==
    /\ probe.op = "schedule"
    /\ k \in DOMAIN probe.kinds
    /\ probe.calls[k] = "body"
    /\ probe.endpoint[k] = "responds"
    /\ LET n == Cardinality(twitterSources(probe.kinds))
       IN  probe' = [probe EXCEPT
                        !.calls[k] = IF ok THEN "done" ELSE "failed",
                        !.log = Append(@, <<"end", k>>),
                        !.i = IF probe.kinds[k] = "twitter_search" THEN @ + 1 ELSE @,
                        !.pc = IF probe.kinds[k] = "twitter_search"
                               THEN afterTwitterCall(probe.i, n) ELSE @]
    /\ UNCHANGED <<events, statusChanges, sources, clock, lastCall, crawlRuns, runs, upstream>>

\* the timer of fetchWithTimeout fires before the response head has arrived:
\* the fetch is aborted and crawlSource returns the error.
\* crawlTwitterRecentSearch arms no timer.
AbortFetch(k) ==
    /\ probe.op = "schedule"
    /\ k \in DOMAIN probe.kinds
    /\ probe.calls[k] = "head"
    /\ probe.kinds[k] # "twitter_search"
    /\ probe' = [probe EXCEPT !.calls[k] = "failed", !.log = Append(@, <<"abort", k>>)]
    /\ UNCHANGED <<events, statusChanges, sources, clock, lastCall, crawlRuns, runs, upstream>>

\* Promise.all resolves: every crawlSource of the first group has returned
FetchesJoined ==
    /\ probe.op = "schedule"
    /\ probe.pc = "fetch"
    /\ \A k \in nonTwitterSources(probe.kinds) : probe.calls[k] \in {"done", "failed"}
    /\ probe' = [probe EXCEPT !.pc = IF twitterSources(probe.kinds) = {}
                                     THEN "return" ELSE "twitter"]
    /\ UNCHANGED <<events, statusChanges, sources, clock, lastCall, crawlRuns, runs, upstream>>

\* an iteration of the social-search loop: crawlSource(twitterSources[i])
\* returns at once without the credential, else the search request is sent
TwitterCall ==
    /\ probe.op = "schedule"
    /\ probe.pc = "twitter"
    /\ LET k == twitterAt(probe.kinds, probe.i)
           n == Cardinality(twitterSources(probe.kinds))
       IN  IF probe.bearerToken = ""
           THEN probe' = [probe EXCEPT !.calls[k] = "failed", !.i = @ + 1,
                                       !.pc = afterTwitterCall(probe.i, n)]
           ELSE probe' = [probe EXCEPT !.calls[k] = "head", !.pc = "await",
                                       !.log = Append(@, <<"start", k>>)]
    /\ UNCHANGED <<events, statusChanges, sources, clock, lastCall, crawlRuns, runs, upstream>>

\* sleep(TWITTER_DELAY_MS) is over and the loop goes on with the next source
DelayElapsed ==
    /\ probe.op = "schedule"
    /\ probe.pc = "sleep"
    /\ probe' = [probe EXCEPT !.pc = "twitter", !.log = Append(@, <<"delay", 0>>)]
    /\ UNCHANGED <<events, statusChanges, sources, clock, lastCall, crawlRuns, runs, upstream>>

\* crawlSources returns; runIngestionPipeline starts the classification of the
\* batch, every call with its 60 s timer
StartClassify ==
    /\ probe.op = "schedule"
    /\ probe.pc = "return"
    /\ probe' = [probe EXCEPT !.pc = "classify",
                              !.classify = [c \in DOMAIN probe.classify |-> "request"]]
    /\ UNCHANGED <<events, statusChanges, sources, clock, lastCall, crawlRuns, runs, upstream>>

\* the classification service answers a call (head and body, both awaited
\* inside the try block whose finally clears the timer)
ClassifyAnswered(c) ==
    /\ probe.op = "schedule"
    /\ c \in DOMAIN probe.classify
    /\ probe.classify[c] = "request"
    /\ probe.service = "responds"
    /\ probe' = [probe EXCEPT !.classify[c] = "settled"]
    /\ UNCHANGED <<events, statusChanges, sources, clock, lastCall, crawlRuns, runs, upstream>>

\* the 60 s timer of a classification call fires
ClassifyAborted(c) ==
    /\ probe.op = "schedule"
    /\ c \in DOMAIN probe.classify
    /\ probe.classify[c] = "request"
    /\ probe' = [probe EXCEPT !.classify[c] = "settled"]
    /\ UNCHANGED <<events, statusChanges, sources, clock, lastCall, crawlRuns, runs, upstream>>

\* every classification has settled: the write loop runs and finalizeCrawlRun
\* is called
Finalize ==
    /\ probe.op = "schedule"
    /\ probe.pc = "classify"
    /\ \A c \in DOMAIN probe.classify : probe.classify[c] = "settled"
    /\ probe' = [probe EXCEPT !.pc = "finalized"]
    /\ UNCHANGED <<events, statusChanges, sources, clock, lastCall, crawlRuns, runs, upstream>>

NextSchedule ==
    \/ StartFetches
    \/ \E k \in DOMAIN ScheduleCatalog, ok \in BOOLEAN : HeadArrives(k, ok)
    \/ \E k \in DOMAIN ScheduleCatalog, ok \in BOOLEAN : BodyArrives(k, ok)
    \/ \E k \in DOMAIN ScheduleCatalog : AbortFetch(k)
    \/ FetchesJoined
    \/ TwitterCall
    \/ DelayElapsed
    \/ StartClassify
    \/ \E c \in 1..MaxClassify : ClassifyAnswered(c)
    \/ \E c \in 1..MaxClassify : ClassifyAborted(c)
    \/ Finalize

SpecSchedule == InitSchedule /\ [][NextSchedule]_vars

\* the event loop runs every continuation that is ready, timers fire, and an
\* endpoint that answers does answer
SpecScheduleFair == SpecSchedule /\ WF_vars(NextSchedule)

\* ------------------------------------- claims on the pass's network calls

\* the social-search calls on the network
twitterInFlight(p) == onNetwork(p.calls) \cap twitterSources(p.kinds)

\* the calls that start in this step
startingCalls == {k \in DOMAIN probe.kinds : probe.calls[k] = "idle" /\ probe'.calls[k] = "head"}

\* C22: crawlSources starts the fetches of all sources other than social
\* searches together, before any of them has completed, and runs the social
\* searches one at a time: the call for a search starts only when the call of
\* the search before it has completed and the delay after it has elapsed, and
\* no two social-search calls are ever in flight together.
C22_State == probe.op = "schedule" => Cardinality(twitterInFlight(probe)) <= 1

C22_Step ==
    (probe.op = "schedule" /\ startingCalls # {}) =>
        /\ startingCalls \cap nonTwitterSources(probe.kinds) # {} =>
               /\ startingCalls = {k \in nonTwitterSources(probe.kinds) :
                                      isAllowedKind(probe.kinds[k])}
               /\ probe.log = <<>>
        /\ \A k \in startingCalls \cap twitterSources(probe.kinds) :
               /\ startingCalls = {k}
               /\ twitterInFlight(probe) = {}
               /\ \A j \in twitterSources(probe.kinds) :
                      j < k => probe.calls[j] \in {"done", "failed"}
               /\ (\E j \in twitterSources(probe.kinds) : j < k) =>
                      /\ Len(probe.log) >= 2
                      /\ probe.log[Len(probe.log)] = <<"delay", 0>>
                      /\ probe.log[Len(probe.log) - 1][1] = "end"
                      /\ probe.log[Len(probe.log) - 1][2] \in twitterSources(probe.kinds)
                      /\ \A j \in twitterSources(probe.kinds) :
                             j < k => probe.log[Len(probe.log) - 1][2] >= j

C22_SearchesOneAtATime == []C22_State /\ [][C22_Step]_vars

\* C22 witness: both fetches were on the network together, and the second
\* social search is on the network after the first one's answer and the delay
C22_Witness ==
    /\ probe.op = "schedule"
    /\ probe.kinds = ScheduleCatalog
    /\ probe.calls[2] = "done"
    /\ probe.calls[4] = "head"
    /\ Len(probe.log) >= 2
    /\ probe.log[1] = <<"start", 1>>
    /\ probe.log[2] = <<"start", 3>>
    /\ \E m \in 1..(Len(probe.log) - 2) :
           /\ probe.log[m] = <<"end", 2>>
           /\ probe.log[m + 1] = <<"delay", 0>>
           /\ probe.log[m + 2] = <<"start", 4>>

\* the calls on the network whose abort timer is armed: a fetchWithTimeout
\* waiting for the response head
timed(p) == {k \in onNetwork(p.calls) : p.calls[k] = "head" /\ p.kinds[k] # "twitter_search"}

\* C23: every network call of a pass is bounded by a timeout of its own, so
\* that an endpoint that never responds fails only its own source or item and
\* the pass eventually finalizes its run.
C23_PassFinalizes ==
    /\ [](probe.op = "schedule" => onNetwork(probe.calls) \subseteq timed(probe))
    /\ <>(probe.op = "schedule" /\ probe.pc = "finalized")

\* ------------------------------------------- claims on the write phase

\* the store as the write loop of a pass finds it
storeNow == [events |-> events, statusChanges |-> statusChanges, sources |-> sources]

\* results[j] the write loop of run r comes to next
nextEntry(r) == runs[r].crawlResult.items[runs[r].i + 1]

\* run r takes one iteration of its write loop in this step
writes(r) ==
    /\ r \in 1..Len(runs)
    /\ runs[r].pc = "write"
    /\ runs[r].i < Len(runs[r].crawlResult.items)
    /\ runs'[r].i = runs[r].i + 1

\* results[j] is a classified item with a deduplication key not seen in the pass
reachesUpsert(r) ==
    /\ ~nextEntry(r).analysis.rejected
    /\ buildDeduplicationKey(nextEntry(r).item, nextEntry(r).analysis)
           \notin runs[r].seenDeduplicationKeys

\* the four event counters of a run, as a tuple without eventsIgnored
otherCounters(run) == <<run.eventsCreated, run.eventsUpdated, run.eventsStatusChanged>>

\* upsertRegulationEvent would throw for the item the write loop of run r comes
\* to next: the item passes the relevance and quality gates, no stored row is
\* selected for it, and its INSERT violates a constraint of the table
upsertThrows(r) ==
    LET entry == nextEntry(r)
        event == analysedEvent(entry.item, entry.analysis)
    IN  /\ reachesUpsert(r)
        /\ entry.analysis.isRelevant
        /\ ~isLowQualityAnalysis(entry.item, entry.analysis)
        /\ upsertRegulationEvent(storeNow, event, clock + 1).result.status = "threw"

\* C24: when upsertRegulationEvent throws for an item in the write phase, the
\* item is counted in eventsIgnored and in no other counter, the write loop
\* goes on with the next item, and the run is later finalized as completed or
\* partial: a run finalized as failed has processed no item.
C24_Step ==
    \A r \in 1..Len(runs) :
        (writes(r) /\ upsertThrows(r)) =>
            /\ runs'[r].eventsIgnored = runs[r].eventsIgnored + 1
            /\ otherCounters(runs'[r]) = otherCounters(runs[r])
            /\ runs'[r].itemsDiscovered = runs[r].itemsDiscovered + 1
            /\ runs'[r].pc = "write"
            /\ events' = events
            /\ statusChanges' = statusChanges

C24_State ==
    \A r \in 1..Len(runs) :
        /\ runs[r].pc = "thrown" => runs[r].i = 0 /\ runs[r].itemsDiscovered = 0
        /\ runs[r].pc = "returned" =>
               /\ runs[r].i = Len(runs[r].crawlResult.items)
               /\ runs[r].summary.itemsDiscovered = Len(runs[r].crawlResult.items)
               /\ runs[r].summary.status \in {"completed", "partial"}
               /\ runRow(runs[r]).status = runs[r].summary.status
               /\ runs[r].summary.eventsIgnored + runs[r].summary.eventsCreated
                      + runs[r].summary.eventsUpdated + runs[r].summary.eventsStatusChanged
                      <= runs[r].summary.itemsDiscovered

C24_UpsertThrowIsolated == []C24_State /\ [][C24_Step]_vars

\* C24 witness: the first pass over the regulator's Bill A, an irrelevant item
\* and the wire's Bill A under the country spelt `usa` (whose INSERT violates
\* the primary key) has returned as completed: one event created, two items
\* ignored
C24_Witness ==
    /\ Len(runs) >= 1
    /\ runs[1].pc = "returned"
    /\ runs[1].crawlResult.items = <<ItemCA_A, ItemCA_Irrelevant, ItemWire_Acase>>
    /\ runs[1].summary.status = "completed"
    /\ runs[1].summary.eventsCreated = 1
    /\ runs[1].summary.eventsIgnored = 2
    /\ runs[1].summary.itemsDiscovered = 3
    /\ Cardinality(events) = 1

\* the classifier found the item relevant and its analysis passes the quality
\* gate: the summary is not empty, has the minimum length, is no boilerplate,
\* and the title, the summary or the raw text holds a regulatory keyword
passesGates(entry) ==
    LET summary == sanitizeText(entry.analysis.summary)
    IN  /\ ~entry.analysis.rejected
        /\ entry.analysis.isRelevant
        /\ summary # ""
        /\ Len(summary) >= 60
        /\ ~matchesBoilerplate(summary)
        /\ \/ containsRegulatoryKeyword(sanitizeText(entry.item.title))
           \/ containsRegulatoryKeyword(summary)
           \/ containsRegulatoryKeyword(toLowerCase(sanitizeText(entry.item.rawText)))

\* C25: an item leads to a write to the store only if the classifier found it
\* relevant and its analysis passes the quality gate; every other item is
\* counted in eventsIgnored (and in no other counter) and leaves the event,
\* StatusChange and source tables as they were.
C25_Step ==
    \A r \in 1..Len(runs) :
        writes(r) =>
            /\ storeNow' # storeNow => passesGates(nextEntry(r))
            /\ ~passesGates(nextEntry(r)) =>
                   /\ runs'[r].eventsIgnored = runs[r].eventsIgnored + 1
                   /\ otherCounters(runs'[r]) = otherCounters(runs[r])
                   /\ storeNow' = storeNow

C25_OnlyGatedItemsWrite == [][C25_Step]_vars

\* C25 witness: a pass has gone through a relevant item whose summary is too
\* short and an item whose classification was rejected, both ignored, and has
\* written the one item that passes the gates
C25_Witness ==
    /\ Len(runs) >= 1
    /\ runs[1].pc = "returned"
    /\ runs[1].crawlResult.items = <<ItemCA_Thin, ItemCA_Rejected, ItemWire_Unauthorized>>
    /\ ItemCA_Thin.analysis.isRelevant
    /\ runs[1].summary.eventsIgnored = 2
    /\ runs[1].summary.eventsCreated = 1
    /\ Cardinality(events) = 1

\* the results the write loop of run r has gone through before the next one
\* and did not pass over as rejected
earlierEntries(r) ==
    {runs[r].crawlResult.items[k] : k \in 1..runs[r].i} \ 
        {entry \in {runs[r].crawlResult.items[k] : k \in 1..runs[r].i} :
            entry.analysis.rejected}

\* the hash of an item's content: of its raw text, else of title and summary
contentHash(item) ==
    hashText(IF item.rawText = "" THEN item.title \o " " \o item.summary ELSE item.rawText)

\* the key as the claim words it: normalized jurisdiction and title, content hash
statedKey(entry) ==
    <<buildRegulationKey(entry.item, entry.analysis), contentHash(entry.item)>>

\* the key with the content part the code takes: the item's trimmed lower-cased
\* URL, and the content hash only for an item without URL
urlFirstKey(entry) ==
    <<buildRegulationKey(entry.item, entry.analysis),
      IF toLowerCase(trim(entry.item.url)) = "" THEN "text:" \o contentHash(entry.item)
      ELSE toLowerCase(trim(entry.item.url))>>

\* the iteration passes over results[j]: counted in eventsIgnored, no store write
passedOver(r) ==
    /\ runs'[r].eventsIgnored = runs[r].eventsIgnored + 1
    /\ otherCounters(runs'[r]) = otherCounters(runs[r])
    /\ storeNow' = storeNow

\* C26 as stated: within one invocation, an item whose normalized
\* (jurisdiction, title, content-hash) key is that of an earlier item of the
\* invocation is counted in eventsIgnored and causes no store write.
C26_Step ==
    \A r \in 1..Len(runs) :
        (/\ writes(r)
         /\ ~nextEntry(r).analysis.rejected
         /\ \E earlier \in earlierEntries(r) : statedKey(earlier) = statedKey(nextEntry(r)))
            => passedOver(r)

C26_NoRepeatedContentKey == [][C26_Step]_vars

\* C26, amended: within one invocation, an item whose normalized jurisdiction,
\* title and URL (content hash, for an item without URL) are those of an
\* earlier item of the invocation is counted in eventsIgnored and causes no
\* store write.
C26_AmendedStep ==
    \A r \in 1..Len(runs) :
        (/\ writes(r)
         /\ ~nextEntry(r).analysis.rejected
         /\ \E earlier \in earlierEntries(r) : urlFirstKey(earlier) = urlFirstKey(nextEntry(r)))
            => passedOver(r)

C26_NoRepeatedUrlKey == [][C26_AmendedStep]_vars

\* C26 witness: the regulator's page occurred twice in the batch, with
\* different stage answers; the first was written, the second ignored
C26_Witness ==
    /\ probe.op = "settle"
    /\ runs[1].pc = "returned"
    /\ probe.batch = <<SettleCA_A, SettleCA_A_Again>>
    /\ runs[1].summary.eventsCreated = 1
    /\ runs[1].summary.eventsIgnored = 1
    /\ \A e \in events : e.stage = "introduced"

\* --------------------------------------- claims on the crawler's output

\* the items crawlSources has collected from the sources' runs, before its
\* deduplication: those of the sources other than social searches first
collected ==
    LET isTwitter(site) == site.source.kind = "twitter_search"
        ordered == SelectSeq(probe.sites, LAMBDA site : ~isTwitter(site))
                       \o SelectSeq(probe.sites, isTwitter)
    IN  Flatten([i \in 1..Len(ordered) |->
                    itemsOfRun(ordered[i].source,
                               crawlSource(ordered[i].source, ordered[i].net,
                                           probe.bearerToken).items)])

\* the deduplication key of a crawled item: the source's id with the item's
\* trimmed lower-cased URL, or with the hash of its raw text when it has none
sourceUrlKey(item) ==
    IF toLowerCase(trim(item.url)) # ""
    THEN <<item.source.id, "url", toLowerCase(trim(item.url))>>
    ELSE <<item.source.id, "text", crawlerHashText(item.rawText)>>

\* C27: crawlSources returns at most one item per key (source id with the
\* trimmed lower-cased URL, or with the hash of the raw text when the URL is
\* empty); the item returned for a key is the first one collected, in the order
\* of collection; and items with the same URL from two different sources are
\* both returned.
C27_OneItemPerSourceUrl ==
    crawled =>
        LET items == probe.output.items
            firsts == {k \in 1..Len(collected) :
                          \A j \in 1..(k - 1) :
                              sourceUrlKey(collected[j]) # sourceUrlKey(collected[k])}
        IN  /\ \A i, j \in 1..Len(items) :
                   sourceUrlKey(items[i]) = sourceUrlKey(items[j]) => i = j
            /\ Len(items) = Cardinality(firsts)
            /\ \A i \in 1..Len(items) : items[i] = collected[nth(firsts, i)]
            /\ \A a, b \in 1..Len(collected) :
                   (/\ collected[a].source.id # collected[b].source.id
                    /\ toLowerCase(trim(collected[a].url)) = toLowerCase(trim(collected[b].url)))
                       => \E i, j \in 1..Len(items) :
                              /\ items[i].source.id = collected[a].source.id
                              /\ items[j].source.id = collected[b].source.id
                              /\ sourceUrlKey(items[i]) = sourceUrlKey(collected[a])
                              /\ sourceUrlKey(items[j]) = sourceUrlKey(collected[b])

\* C27 witness: two feeds each listed the same document twice (one of them in
\* another letter case); the first entry of each feed was returned
C27_Witness ==
    /\ crawled
    /\ Len(probe.sites) = 2
    /\ probe.sites[1].source.id = "dup-feed"
    /\ probe.sites[2].source.id = "mirror-feed"
    /\ Len(collected) = 4
    /\ Len(probe.output.items) = 2
    /\ probe.output.items[1].title = "Rule 2"
    /\ probe.output.items[2].title = "Rule 2 mirrored"
    /\ toLowerCase(probe.output.items[1].url) = toLowerCase(probe.output.items[2].url)

\* ------------------------------------------------------- the parsers

\* blocks a feed document holds besides its run of distinct entries
MaxBlocks == 2

MAX_ITEMS_PER_FEED == 5

\* an <item> or <entry> block of a feed, as parseTag and extractItemLink read
\* it: the title (Null when parseTag finds none), the link, the description
Block(tag, title, link, description) ==
    [tag |-> tag, title |-> title, link |-> link, description |-> description]

\* entries = [...<item> blocks, ...<entry> blocks]
feedEntries(blocks) ==
    SelectSeq(blocks, LAMBDA b : b.tag = "item") \o SelectSeq(blocks, LAMBDA b : b.tag = "entry")

\* rawTitle?.trim() || "Untitled feed item"
feedTitle(block) ==
    IF block.title = Null \/ trim(block.title) = "" THEN "Untitled feed item"
    ELSE trim(block.title)

\* a plausible slip: the pair compared as written
feedDedupeKey_exact(url, title) == url \o "::" \o title

\* `${url.toLowerCase()}::${title.toLowerCase()}`
feedDedupeKey(url, title) == toLowerCase(url) \o "::" \o toLowerCase(title)

\* the loop of parseFeedText over the entries
RECURSIVE parseEntries(_, _, _, _)
parseEntries(entries, sourceUrl, seen, items) ==
    IF entries = <<>> \/ Len(items) >= MAX_ITEMS_PER_FEED THEN items
    ELSE LET entry == Head(entries)
             title == feedTitle(entry)
             url == normalizeUrl(entry.link, sourceUrl)
             entryKey == feedDedupeKey(url, title)
         IN  IF title = "" \/ url = "" \/ entryKey \in seen
             THEN parseEntries(Tail(entries), sourceUrl, seen, items)
             ELSE parseEntries(Tail(entries), sourceUrl, seen \cup {entryKey},
                               Append(items,
                                      [title |-> title, publishedAt |-> Null, url |-> url,
                                       summary |-> IF entry.description = "" THEN title
                                                   ELSE entry.description,
                                       rawText |-> title \o ". " \o entry.description]))

parseFeedText(blocks, sourceUrl) == parseEntries(feedEntries(blocks), sourceUrl, {}, <<>>)

\* parseWebPage over a page read as its <title> text (Null without a <title>
\* element) and its text content
parseWebPage(page, source) ==
    LET title == IF page.title = Null THEN source.name ELSE page.title
        enrichedBody == "Source: " \o source.name \o "\nNotes: \n\n" \o page.body
    IN  IF title = "" /\ page.body = "" THEN <<>>
        ELSE <<[title |-> title, publishedAt |-> Null, url |-> source.url,
                summary |-> enrichedBody, rawText |-> enrichedBody]>>

\* the loop of crawlTwitterRecentSearch over payload.data; the author is unknown
RECURSIVE parseTweets(_, _)
parseTweets(tweets, seen) ==
    IF tweets = <<>> THEN <<>>
    ELSE LET tweet == Head(tweets)
             url == "https://x.com/unknown/status/" \o tweet.id
         IN  IF tweet.id = "" \/ tweet.text = "" \/ tweet.id \in seen
             THEN parseTweets(Tail(tweets), seen)
             ELSE <<[title |-> IF trim(tweet.text) = "" THEN "Tweet by @unknown"
                               ELSE trim(tweet.text),
                     publishedAt |-> Null, url |-> url, summary |-> trim(tweet.text),
                     rawText |-> "Tweet URL: " \o url]>>
                  \o parseTweets(Tail(tweets), seen \cup {tweet.id})

\* the blocks a document can hold besides its run: the same document listed
\* in another letter case, as an Atom entry with a relative link, without
\* title, and without link
FeedBlocks ==
    {Block("item", "Rule 2", "https://example.gov/docs/2", "First instance"),
     Block("item", "RULE 2", "https://example.gov/Docs/2", "Second instance"),
     Block("entry", "Rule 2", "docs/2", "Atom instance"),
     Block("item", Null, "https://example.gov/docs/2", "Untitled instance"),
     Block("item", "Rule 2", "", "No link")}

\* a run of six entries with the same title and links of their own
FeedRun ==
    <<Block("item", "Rule 2", "https://example.gov/docs/r1", "Run 1"),
      Block("item", "Rule 2", "https://example.gov/docs/r2", "Run 2"),
      Block("item", "Rule 2", "https://example.gov/docs/r3", "Run 3"),
      Block("item", "Rule 2", "https://example.gov/docs/r4", "Run 4"),
      Block("item", "Rule 2", "https://example.gov/docs/r5", "Run 5"),
      Block("item", "Rule 2", "https://example.gov/docs/r6", "Run 6")>>

\* the feed documents: the first n entries of the run, with up to MaxBlocks
\* other blocks inserted after the m-th
FeedDocuments ==
    {SubSeq(FeedRun, 1, m) \o inserted \o SubSeq(FeedRun, m + 1, n) :
        inserted \in UNION {[1..k -> FeedBlocks] : k \in 0..MaxBlocks},
        m \in 0..Len(FeedRun), n \in 0..Len(FeedRun)}

\* pages: without <title> element, with one, with an empty one, and empty
PageInputs ==
    {[title |-> Null, body |-> "Meta safety update"],
     [title |-> "Good Page", body |-> "Good Page Meta safety update"],
     [title |-> "", body |-> "Meta safety update"],
     [title |-> "", body |-> ""],
     [title |-> Null, body |-> ""]}

\* search payloads
TweetInputs ==
    {<<>>,
     <<[id |-> "1", text |-> "Teen safety post"], [id |-> "1", text |-> "Teen safety post"]>>,
     <<[id |-> "2", text |-> "  "], [id |-> "", text |-> "no id"], [id |-> "3", text |-> ""]>>}

NoItems == <<>>

\* crawlSource has fetched the payload of a source and is about to parse it
InitParse ==
    /\ events = {}
    /\ statusChanges = <<>>
    /\ sources = {}
    /\ clock = 0
    /\ lastCall = NoCall
    /\ crawlRuns = <<>>
    /\ runs = <<>>
    /\ upstream = <<>>
    /\ probe \in {[op |-> "parse", kind |-> "rss", payload |-> document, done |-> FALSE,
                   source |-> SiteSource("feed", "rss", "https://example.gov/feed"),
                   output |-> NoItems] : document \in FeedDocuments}
             \cup {[op |-> "parse", kind |-> "webpage", payload |-> page, done |-> FALSE,
                    source |-> SiteSource(name, "webpage", "https://example.gov/page"),
                    output |-> NoItems] : page \in PageInputs, name \in {"good-page"}}
             \cup {[op |-> "parse", kind |-> "twitter_search", payload |-> tweets,
                    done |-> FALSE,
                    source |-> SiteSource("x-search", "twitter_search",
                                          "https://api.x.com/2/search"),
                    output |-> NoItems] : tweets \in TweetInputs}

\* crawlSource: parseFeedText for every kind but webpage and twitter_search
ParseFeed ==
    /\ probe.op = "parse"
    /\ ~probe.done
    /\ probe.kind \notin {"webpage", "twitter_search"}
    /\ probe' = [probe EXCEPT !.done = TRUE,
                              !.output = parseFeedText(probe.payload, probe.source.url)]
    /\ UNCHANGED <<events, statusChanges, sources, clock, lastCall, crawlRuns, runs, upstream>>

ParsePage ==
    /\ probe.op = "parse"
    /\ ~probe.done
    /\ probe.kind = "webpage"
    /\ probe' = [probe EXCEPT !.done = TRUE,
                              !.output = parseWebPage(probe.payload, probe.source)]
    /\ UNCHANGED <<events, statusChanges, sources, clock, lastCall, crawlRuns, runs, upstream>>

ParseSearch ==
    /\ probe.op = "parse"
    /\ ~probe.done
    /\ probe.kind = "twitter_search"
    /\ probe' = [probe EXCEPT !.done = TRUE, !.output = parseTweets(probe.payload, {})]
    /\ UNCHANGED <<events, statusChanges, sources, clock, lastCall, crawlRuns, runs, upstream>>

NextParse == ParseFeed \/ ParsePage \/ ParseSearch

SpecParse == InitParse /\ [][NextParse]_vars

\* ------------------------------------------------ claims on the parsers

\* a feed has been parsed
feedParsed == probe.op = "parse" /\ probe.done /\ probe.kind = "rss"

\* the case-insensitive (url, title) pair of a feed entry
pairOf(block) ==
    <<toLowerCase(normalizeUrl(block.link, "https://example.gov/feed")),
      toLowerCase(feedTitle(block))>>

\* the entries of `blocks` (taken in the order given) that have a link and
\* are the first of their pair
firstOfPair(blocks) ==
    {k \in 1..Len(blocks) :
        /\ normalizeUrl(blocks[k].link, "https://example.gov/feed") # ""
        /\ \A j \in 1..(k - 1) : pairOf(blocks[j]) # pairOf(blocks[k])}

\* the output is made of the first entries of their pairs among `blocks`, in
\* that order and up to the cap, each with its own description
keepsFirsts(output, blocks) ==
    LET firsts == firstOfPair(blocks)
    IN  /\ Len(output) <= MAX_ITEMS_PER_FEED
        /\ Len(output) = IF Cardinality(firsts) < MAX_ITEMS_PER_FEED
                         THEN Cardinality(firsts) ELSE MAX_ITEMS_PER_FEED
        /\ \A i, j \in 1..Len(output) :
               (/\ toLowerCase(output[i].url) = toLowerCase(output[j].url)
                /\ toLowerCase(output[i].title) = toLowerCase(output[j].title)) => i = j
        /\ \A i \in 1..Len(output) :
               LET block == blocks[nth(firsts, i)]
               IN  /\ output[i].title = feedTitle(block)
                   /\ output[i].url = normalizeUrl(block.link, "https://example.gov/feed")
                   /\ output[i].summary = block.description

\* the output holds one item for each of up to 5 pairs, and each item is the
\* first entry of its pair among `blocks`, with that entry's description
keepsFirstOfPair(output, blocks) ==
    LET firsts == firstOfPair(blocks)
    IN  /\ Len(output) = IF Cardinality(firsts) < MAX_ITEMS_PER_FEED
                         THEN Cardinality(firsts) ELSE MAX_ITEMS_PER_FEED
        /\ \A i, j \in 1..Len(output) :
               (/\ toLowerCase(output[i].url) = toLowerCase(output[j].url)
                /\ toLowerCase(output[i].title) = toLowerCase(output[j].title)) => i = j
        /\ \A i \in 1..Len(output) :
               \E k \in firsts :
                   /\ output[i].title = feedTitle(blocks[k])
                   /\ output[i].url = normalizeUrl(blocks[k].link, "https://example.gov/feed")
                   /\ output[i].summary = blocks[k].description

\* C28 as stated: parseFeedText returns at most 5 items and at most one per
\* case-insensitive (url, title) pair: of the entries sharing a pair the first
\* in document order is kept, with its own description, and duplicates do not
\* count toward the cap.
C28_FirstInDocumentKept == feedParsed => keepsFirstOfPair(probe.output, probe.payload)

\* C28, amended: the same, the first of the entries sharing a pair being the
\* first in the parser's order (every <item> block of the document, then
\* every <entry> block), and the items returned being the first five such
\* entries in that order.
C28_FirstParsedKept == feedParsed => keepsFirsts(probe.output, feedEntries(probe.payload))

\* C28 witness: six entries with links of their own, and after the second the
\* first document again in another letter case and without link; the five
\* first pairs were returned
C28_Witness ==
    /\ feedParsed
    /\ Len(probe.payload) = 8
    /\ probe.payload[3] = Block("item", "RULE 2", "https://example.gov/Docs/2", "Second instance")
    /\ probe.payload[4] = Block("item", "Rule 2", "https://example.gov/docs/2", "First instance")
    /\ Len(probe.output) = 5
    /\ probe.output[3].summary = "Second instance"
    /\ probe.output[5].summary = "Run 4"

\* the text starts with the prefix
startsWith(text, prefix) ==
    Len(text) >= Len(prefix) /\ SubSeq(text, 1, Len(prefix)) = prefix

isAbsoluteUrl(url) == startsWith(url, "http://") \/ startsWith(url, "https://")

\* C29: every CrawlInput the parsers produce, for a feed, a page or a search,
\* has a non-empty title and a non-empty absolute URL; a feed entry whose
\* title or URL is empty is dropped: every item of a feed comes from an entry
\* that has both.
C29_TitleAndUrlPresent ==
    (probe.op = "parse" /\ probe.done) =>
        /\ \A i \in 1..Len(probe.output) :
               /\ probe.output[i].title # ""
               /\ isAbsoluteUrl(probe.output[i].url)
        /\ probe.kind = "rss" =>
               \A i \in 1..Len(probe.output) :
                   \E k \in 1..Len(probe.payload) :
                       LET block == probe.payload[k]
                       IN  /\ block.title # Null
                           /\ trim(block.title) # ""
                           /\ block.link # ""
                           /\ probe.output[i].title = trim(block.title)
                           /\ probe.output[i].url = normalizeUrl(block.link, probe.source.url)

\* --------------------------------- claims on the authentication failure

\* the classification calls that have failed with HTTP 401
failedUnauthorized(p) == p.settled \cap p.requested \cap p.unauthorized

\* C30: once a classification call of the pass has failed with HTTP 401, no
\* request is sent to the classification service for any item whose analysis
\* starts afterwards in that pass: those items settle without a network call.
C30_Step ==
    (probe.op = "batch" /\ failedUnauthorized(probe) # {}) =>
        probe'.requested = probe.requested

C30_NoRequestAfterUnauthorized == [][C30_Step]_vars

\* C30 witness: the call for item 3 of the first batch was answered 401; the
\* second batch is in flight and no request was sent for its items
C30_Witness ==
    /\ probe.op = "batch"
    /\ probe.width = 10
    /\ probe.n = 12
    /\ probe.unauthorized = {3}
    /\ probe.minimaxAuthFailed
    /\ probe.inFlight = {11, 12}
    /\ probe.requested = 1..10

\* ----------------------------------------------- splitJurisdiction alone

\* comma-separated segments of one jurisdiction text
MaxSegments == 3

\* what stands before the first comma, and what stands after a comma
FirstSegments == {"USA", "California", "Springfield", ""}
LaterSegments == {" USA", " California", " Springfield", ""}

\* the jurisdiction texts, each as the sequence of its segments: the first
\* segment has no leading blank and the last no trailing one, so that trimming
\* the whole text changes nothing but the text of blanks alone
JurisdictionInputs ==
    {<<"  ">>}
    \cup UNION {{<<first>> \o rest : first \in FirstSegments,
                                    rest \in [1..(n - 1) -> LaterSegments]} :
                  n \in 1..MaxSegments}

NoSplit == [country |-> "", state |-> Null]

\* a caller holds a jurisdiction text and is about to split it
InitSplit ==
    /\ events = {}
    /\ statusChanges = <<>>
    /\ sources = {}
    /\ clock = 0
    /\ lastCall = NoCall
    /\ crawlRuns = <<>>
    /\ runs = <<>>
    /\ upstream = <<>>
    /\ probe \in {[op |-> "split", rawJurisdiction |-> raw, done |-> FALSE,
                   out |-> NoSplit] : raw \in JurisdictionInputs}

\* splitJurisdiction(rawJurisdiction)
SplitCall ==
    /\ probe.op = "split"
    /\ ~probe.done
    /\ probe' = [probe EXCEPT !.done = TRUE,
                              !.out = splitJurisdiction(probe.rawJurisdiction)]
    /\ UNCHANGED <<events, statusChanges, sources, clock, lastCall, crawlRuns, runs, upstream>>

NextSplit == SplitCall

SpecSplit == InitSplit /\ [][NextSplit]_vars

\* ---------------------------------------- claims on splitJurisdiction

\* the segments of a text: what stands between its commas, trimmed, the empty
\* ones left out
segmentsOf(raw) ==
    SelectSeq([i \in 1..Len(raw) |-> trim(raw[i])], NonEmpty)

\* the split the rule of the three cases gives for several segments
splitBySegments(segs) ==
    IF isLikelyCountry(segs[Len(segs)])
    THEN [country |-> segs[Len(segs)],
          state |-> JoinWith(SubSeq(segs, 1, Len(segs) - 1), ", ")]
    ELSE [country |-> segs[1], state |-> JoinWith(Tail(segs), ", ")]

\* C31: for every jurisdiction text splitJurisdiction returns, for a single
\* segment, that segment as the country and a null state; for several
\* segments, the last one as the country when it is a known country, else the
\* first one, the remaining segments joined being the state; the country is
\* never empty and the state is null or non-empty.
C31_SplitBySegments ==
    (probe.op = "split" /\ probe.done) =>
        LET segs == segmentsOf(probe.rawJurisdiction)
            out == probe.out
        IN  /\ out.country # ""
            /\ (out.state = Null \/ out.state # "")
            /\ (Len(segs) = 1 => out = [country |-> segs[1], state |-> Null])
            /\ (Len(segs) > 1 => out = splitBySegments(segs))

\* ------------------------------------- claims on passes run concurrently

\* invocations a and b overlap in time: each started before the other ended
concurrent(a, b) ==
    /\ a # b
    /\ ended(runs[a]) => runs[b].startedAt < runs[a].finishedAt
    /\ ended(runs[b]) => runs[a].startedAt < runs[b].finishedAt

\* the statuses the write loop records when results[j] went to upsertRegulationEvent
upsertOutcomes == {"created", "updated", "status_changed", "unchanged", "threw"}

\* the identities pass r has sent to upsertRegulationEvent, and those among
\* them it reported as created
identityAt(r, j) ==
    LET entry == runs[r].crawlResult.items[j]
    IN  eventKey(analysedEvent(entry.item, entry.analysis))

upsertedBy(r) ==
    {identityAt(r, j) : j \in {i \in DOMAIN runs[r].outcomes :
                                  runs[r].outcomes[i].status \in upsertOutcomes}}

createdBy(r) ==
    {identityAt(r, j) : j \in {i \in DOMAIN runs[r].outcomes :
                                  runs[r].outcomes[i].status = "created"}}

\* the run row of invocation r carries what r handed to finalizeCrawlRun, or is
\* still as createCrawlRun left it
ownRowOnly(r) ==
    LET run == runs[r]
        row == runRow(run)
    IN  IF ended(run)
        THEN /\ row.writes = 1
             /\ row.finished_at = run.finishedAt
             /\ row.items_discovered = run.itemsDiscovered
             /\ row.events_created = run.eventsCreated
             /\ row.events_updated = run.eventsUpdated
             /\ row.events_status_changed = run.eventsStatusChanged
             /\ row.events_ignored = run.eventsIgnored
             /\ row.sources_failed = run.sourcesFailed
        ELSE row = [createCrawlRun(<<>>, run.startedAt)[1] EXCEPT !.id = run.runId]

\* C32: of invocations running concurrently against one store, every upsert is
\* a single step; an identity two concurrent passes have both sent to the
\* upsert is reported `created` by exactly one invocation and stored in exactly
\* one row, no identity is ever stored twice, and every invocation finalizes
\* its own run row and no other.
C32_ConcurrentPassesSerialized ==
    /\ \A x, y \in events : rowKey(x) = rowKey(y) => x = y
    /\ \A a, b \in 1..Len(runs) :
           concurrent(a, b) =>
               \A k \in upsertedBy(a) \cap upsertedBy(b) :
                   /\ Cardinality({r \in 1..Len(runs) : k \in createdBy(r)}) = 1
                   /\ Cardinality({x \in events : rowKey(x) = k}) = 1
    /\ \A r \in 1..Len(runs) : ownRowOnly(r)

\* C32 witness: two invocations overlapped, their write loops interleaved (each
\* created a row the other then found), and both have returned
C32_Witness ==
    \E a, b \in 1..Len(runs) :
        /\ concurrent(a, b)
        /\ runs[a].pc = "returned"
        /\ runs[b].pc = "returned"
        /\ createdBy(a) # {}
        /\ createdBy(b) # {}
        /\ createdBy(a) \subseteq upsertedBy(b)
        /\ createdBy(b) \subseteq upsertedBy(a)

\* ------------------------------------------- claims on an event's history

\* listEventHistory: the StatusChange rows of an event ORDER BY changed_at ASC,
\* id ASC (a row's id is its position in the table), stages read by extractStage
listEventHistory(changes, eventId) ==
    LET mine == {i \in DOMAIN changes : changes[i].event_id = eventId}
        before(i, j) ==
            \/ changes[i].changed_at < changes[j].changed_at
            \/ changes[i].changed_at = changes[j].changed_at /\ i < j
        rank(i) == Cardinality({j \in mine : before(j, i)}) + 1
        at(k) == changes[CHOOSE i \in mine : rank(i) = k]
    IN  [k \in 1..Cardinality(mine) |->
            [previousStage |-> extractStage(at(k).previous_stage),
             newStage |-> extractStage(at(k).new_stage),
             changedAt |-> at(k).changed_at]]

\* C33: after any sequence of upserts and PATCH edits the StatusChange rows of
\* every event, in (changed_at, id) order, form a chain: no row has equal
\* previous and new stage, every row starts at the stage the row before it
\* ended at, and the last row ends at the event's current stage.
C33_HistoryIsChain ==
    \A e \in events :
        LET history == listEventHistory(statusChanges, e.id)
        IN  /\ \A k \in DOMAIN history :
                   /\ history[k].previousStage # history[k].newStage
                   /\ k > 1 => history[k].previousStage = history[k - 1].newStage
            /\ history # <<>> => history[Len(history)].newStage = e.stage

\* C33 witness: an event whose history holds a change made by an upsert and a
\* change made by a PATCH edit
C33_Witness ==
    /\ probe.op = "patch"
    /\ probe.status = 200
    /\ lastCall.result.status = "status_changed"
    /\ \E e \in events :
           /\ e.id = probe.id
           /\ e.id = lastCall.result.id
           /\ Len(listEventHistory(statusChanges, e.id)) >= 2

\* ------------------------------------------ claims on a pass's counters

\* C34: in the CrawlSummary of every pass that did not fail, itemsDiscovered is
\* the number of items the crawl returned after deduplication, and every
\* discovered item is counted in exactly one outcome counter: itemsDiscovered
\* = eventsCreated + eventsUpdated + eventsStatusChanged + eventsIgnored.
C34_EveryItemCounted ==
    \A r \in 1..Len(runs) :
        runs[r].pc = "returned" =>
            LET summary == runs[r].summary
            IN  /\ summary.itemsDiscovered = Len(runs[r].crawlResult.items)
                /\ summary.itemsDiscovered =
                       summary.eventsCreated + summary.eventsUpdated
                           + summary.eventsStatusChanged + summary.eventsIgnored

upsertThrew == clock' # clock /\ probe' = probe /\ lastCall'.result.status = "threw"

C36_Step ==
    upsertThrew =>
        /\ events' = events
        /\ statusChanges' = statusChanges
        /\ sources' = sources

\* C36: an upsertRegulationEvent call that throws leaves the store as it was
\* before the call: no event row, StatusChange row or source row has been
\* inserted or modified.
C36_ThrowLeavesStore == [][C36_Step]_vars

\* ------------------------------------------ claims on PATCH's validation

scoreFieldsOfBody == {"impactScore", "likelihoodScore", "confidenceScore", "chiliScore"}

\* the request is one the handler is to reject: an id that is not stored, a
\* stage or an age bracket outside its enumeration, a numeric score below 1 or
\* above 5, or neither an editable field nor an annotation
mustReject(id, body) ==
    \/ id \notin {r.id : r \in events}
    \/ isText(body.stage) /\ body.stage.text \notin allowedStages
    \/ isText(body.ageBracket) /\ body.ageBracket.text \notin allowedBrackets
    \/ \E field \in scoreFieldsOfBody :
           body[field].type = "number"
               /\ (body[field].tenths < 10 \/ body[field].tenths > 50)
    \/ patchColumns(body) = {} /\ ~isText(body.annotation)

C37_Step ==
    \A id \in PatchIds, body \in PatchBodies :
        (mustReject(id, body) /\ PatchEvent(id, body)) =>
            /\ probe'.status \in {400, 404}
            /\ events' = events
            /\ statusChanges' = statusChanges
            /\ probe'.annotations = annotations

\* C37: PATCH /api/events/:id validates every supplied field before it writes:
\* a request for an unknown id, with an invalid stage or age bracket, with a
\* score outside 1..5, or with no editable field is answered 404 or 400 and
\* leaves the event, StatusChange and annotation tables unchanged.
C37_RejectedPatchWritesNothing == [][C37_Step]_vars

\* ------------------------- claims on the remembered authentication failure

\* the module's minimaxAuthFailed as a classification finds it or leaves it
moduleFlag(p) ==
    /\ p.op = "analyze"
    /\ IF p.phase = "call" THEN p.minimaxAuthFailed ELSE p.output.minimaxAuthFailed

\* a classification that started with the failure remembered has settled
C38_State ==
    (analysed /\ probe.minimaxAuthFailed) =>
        /\ ~issuesRequest(probe.apiKey, probe.minimaxAuthFailed)
        /\ ~probe.output.threw
        /\ probe.output.value = analyzePayloadDefaults(probe.item.title)
        /\ probe.output.value.isRelevant = FALSE

\* over the steps that classify: a stage edit through the HTTP API runs no
\* classifier code and ends the probe's record of the classifications
C38_Step == (moduleFlag(probe) /\ probe'.op = "analyze") => moduleFlag(probe')

\* C38: once the classifier has remembered an authentication failure the
\* memory is never cleared: every classification started later in the process
\* returns the safe default, not relevant, without asking the service.
C38_AuthFailureSticks == []C38_State /\ [][C38_Step]_vars

\* C38 witness: after a request answered 401, a later classification whose
\* request the service would have answered with a relevant classification has
\* returned the safe default
C38_Witness ==
    /\ analysed
    /\ probe.n > 1
    /\ probe.build = "dist"
    /\ probe.apiKey = "key"
    /\ probe.minimaxAuthFailed
    /\ probe.service = Answered(BaseParsed)
    /\ analysisFromParsed(probe.item, probe.service.parsed).isRelevant
    /\ ~probe.output.value.isRelevant
====
